---------------------------- MODULE Spec2Model ----------------------------
(***************************************************************************)
(* Model of the geographical-domain layer of MT-MLULC                      *)
(* (src/mmt/utils/domains.py): the GeoRectangle class, its conversions,    *)
(* enlarge_domain, bbox_from_bboxs, the module-level domain registry and   *)
(* the find_intersection scan; of the footprint estimate of the raster     *)
(* datasets (src/mmt/datasets/landcovers.py) and of                        *)
(* get_resize_from_mapname (src/mmt/inference/io.py).                      *)
(*                                                                         *)
(* Coordinates are Python floats in the source.  Here they are fixed-point *)
(* integers, one unit being 1e-4 degree (the precision at which the        *)
(* registry literals are written), so 180 degrees is Deg(180).             *)
(***************************************************************************)
EXTENDS Integers, Sequences, FiniteSets, TLC

(***************************************************************************)
(* Bounds of the model.                                                    *)
(***************************************************************************)
\* Input coordinates are drawn from the multiples of 90 degrees in
\* -MaxK*90 .. MaxK*90 (so latitudes beyond +/-90 occur, and with MaxK >= 3
\* longitudes beyond +/-180).
MaxK == 2
\* Enlargement factors are n / FactorDen for n in -1 .. MaxFactorNum.
MaxFactorNum == 4
FactorDen == 2
\* Longest dataset scanned by find_intersection.
MaxTiles == 3

Deg(d) == d * 10000

Vals == {Deg(90) * k : k \in -MaxK..MaxK}

(***************************************************************************)
(* Python values.                                                          *)
(***************************************************************************)
\* The four attributes of a GeoRectangle (domains.py, Attributes section).
Rect(xmin, xmax, ymin, ymax) ==
    [min_longitude |-> xmin, max_longitude |-> xmax,
     min_latitude |-> ymin, max_latitude |-> ymax]

\* The messages of the ValueErrors raised by GeoRectangle.__init__.
NoError == "none"
UnknownFormat == "ValueError: Unknown format"
IncoherentMinMax == "ValueError: Incoherent min/max values for lon/lat"
CrsRequired == "ValueError: Please provide in 'crs' the rasterio.crs.CRS"

\* The outcome of a call: the exception raised (NoError when it returned),
\* the GeoRectangle returned (a sequence of at most one), and the tuple
\* returned by a conversion.
Raise(msg) == [raised |-> msg, rect |-> <<>>, value |-> <<>>]
ReturnRect(r) == [raised |-> NoError, rect |-> <<r>>, value |-> <<>>]
ReturnValue(v) == [raised |-> NoError, rect |-> <<>>, value |-> v]

Min2(a, b) == IF a <= b THEN a ELSE b
Max2(a, b) == IF a >= b THEN a ELSE b
Abs(a) == IF a >= 0 THEN a ELSE -a

(***************************************************************************)
(* GeoRectangle.extract_boundingbox_ (domains.py:138-156): a fold of       *)
(* min/max over the points, started at 90 / -90 / 180 / -180.              *)
(***************************************************************************)
RECURSIVE FoldPoints(_, _)
FoldPoints(points, acc) ==
    IF points = <<>> THEN acc
    ELSE LET lon == Head(points)[1]
             lat == Head(points)[2]
         IN FoldPoints(Tail(points),
                [minlat |-> Min2(acc.minlat, lat),
                 maxlat |-> Max2(acc.maxlat, lat),
                 minlon |-> Min2(acc.minlon, lon),
                 maxlon |-> Max2(acc.maxlon, lon)])

\* A fold started at the origin instead of at the far ends of the range.
extract_boundingbox_from_origin(points) ==
    LET acc == FoldPoints(points,
                   [minlat |-> 0, maxlat |-> 0, minlon |-> 0, maxlon |-> 0])
    IN Rect(acc.minlon, acc.maxlon, acc.minlat, acc.maxlat)

extract_boundingbox_(points) ==
    LET acc == FoldPoints(points,
                   [minlat |-> Deg(90), maxlat |-> Deg(-90),
                    minlon |-> Deg(180), maxlon |-> Deg(-180)])
    IN Rect(acc.minlon, acc.maxlon, acc.minlat, acc.maxlat)

(***************************************************************************)
(* GeoRectangle.__init__ (domains.py:79-136).                              *)
(*                                                                         *)
(* coords is a Python value: a flat 4-tuple, a pair of pairs, a list of    *)
(* (lon, lat) points, a parsed GeoJSON document or a torchgeo BoundingBox. *)
(* Sequences are 1-based here, so coords[0][1] of the source is            *)
(* coords[1][2].  warped is what rasterio.warp.transform_bounds returned   *)
(* for fmt = "epsg" (an external collaborator, chosen by the caller of     *)
(* this operator).                                                         *)
(***************************************************************************)
SupportedTags ==
    {"tlbr", "itlbr", "bltr", "llmm", "lbrt", "json", "points", "tgbox", "epsg"}

NoCrs == "None"

\* json.loads(coords) followed by the try/except of lines 108-111: a
\* document either has geometry.coordinates or top-level coordinates.
JsonRing(doc) ==
    IF "geometry" \in DOMAIN doc THEN doc.geometry.coordinates[1]
    ELSE doc.coordinates[1]

\* Lines 81-85: the first, separate `if`.  The attributes set so far are a
\* sequence of at most one attribute record.
InitFirstIf(coords, fmt) ==
    IF fmt = "tlbr"
    THEN <<Rect(coords[1][1], coords[2][1], coords[2][2], coords[1][2])>>
    ELSE <<>>

\* Lines 86-133: the if/elif chain that starts at `if fmt=="itlbr"` and ends
\* with `else: raise ValueError(f"Unknown format {fmt}")`.
InitChain(attrs, coords, fmt, crs, warped) ==
    CASE fmt = "itlbr" ->
           [raised |-> NoError,
            attrs |-> <<Rect(coords[1][2], coords[2][2], coords[2][1], coords[1][1])>>]
      [] fmt = "bltr" ->
           [raised |-> NoError,
            attrs |-> <<Rect(coords[1][1], coords[1][2], coords[2][1], coords[2][2])>>]
      [] fmt = "llmm" ->
           [raised |-> NoError,
            attrs |-> <<Rect(coords[1], coords[2], coords[3], coords[4])>>]
      [] fmt = "lbrt" ->
           [raised |-> NoError,
            attrs |-> <<Rect(coords[1], coords[3], coords[2], coords[4])>>]
      [] fmt = "json" ->
           [raised |-> NoError, attrs |-> <<extract_boundingbox_(JsonRing(coords))>>]
      [] fmt = "points" ->
           [raised |-> NoError, attrs |-> <<extract_boundingbox_(coords)>>]
      [] fmt = "tgbox" ->
           [raised |-> NoError,
            attrs |-> <<Rect(coords.minx, coords.maxx, coords.miny, coords.maxy)>>]
      [] fmt = "epsg" ->
           IF crs = NoCrs
           THEN [raised |-> CrsRequired, attrs |-> attrs]
           ELSE [raised |-> NoError,
                 attrs |-> <<Rect(warped[1], warped[3], warped[2], warped[4])>>]
      [] OTHER -> [raised |-> UnknownFormat, attrs |-> attrs]

\* A check that forgets the latitudes.
IncoherentLonOnly(r) == r.min_longitude > r.max_longitude

\* Lines 135-136: the coherence check on the attributes that were set.
Incoherent(r) ==
    r.min_longitude > r.max_longitude \/ r.min_latitude > r.max_latitude

GeoRectangle(coords, fmt, crs, warped) ==
    LET s == InitChain(InitFirstIf(coords, fmt), coords, fmt, crs, warped)
    IN IF s.raised # NoError THEN Raise(s.raised)
       ELSE IF Incoherent(s.attrs[1]) THEN Raise(IncoherentMinMax)
       ELSE ReturnRect(s.attrs[1])

(***************************************************************************)
(* Conversions (domains.py:158-188) and the shapely box (251-253).         *)
(***************************************************************************)
\* to_llmm written in the order of to_lbrt.
to_llmm_as_lbrt(r) == <<r.min_longitude, r.min_latitude, r.max_longitude, r.max_latitude>>

to_llmm(r) == <<r.min_longitude, r.max_longitude, r.min_latitude, r.max_latitude>>

to_bltr(r) == <<<<r.min_longitude, r.min_latitude>>, <<r.max_longitude, r.max_latitude>>>>

\* A to_lbrt that returns the fields in llmm order.
to_lbrt_as_llmm(r) == <<r.min_longitude, r.max_longitude, r.min_latitude, r.max_latitude>>

to_lbrt(r) == <<r.min_longitude, r.min_latitude, r.max_longitude, r.max_latitude>>

to_tlbr(r) == <<<<r.min_longitude, r.max_latitude>>, <<r.max_longitude, r.min_latitude>>>>

to_mmll(r) == <<r.min_longitude, r.min_latitude, r.max_longitude, r.max_latitude>>

\* shapely.geometry.box(minx, miny, maxx, maxy)
to_sbox(r) ==
    LET m == to_mmll(r)
    IN [minx |-> m[1], miny |-> m[2], maxx |-> m[3], maxy |-> m[4]]

\* A ring that runs the four corners and stops short of closing.
GeojsonRingOpen(r) ==
    <<<<r.min_longitude, r.max_latitude>>, <<r.max_longitude, r.max_latitude>>,
      <<r.max_longitude, r.min_latitude>>, <<r.min_longitude, r.min_latitude>>>>

\* The ring that to_geojson writes out, point by point (domains.py:211-231).
GeojsonRing(r) ==
    <<<<r.min_longitude, r.max_latitude>>, <<r.max_longitude, r.max_latitude>>,
      <<r.max_longitude, r.min_latitude>>, <<r.min_longitude, r.min_latitude>>,
      <<r.min_longitude, r.max_latitude>>>>

\* to_geojson (domains.py:200-240): the document that the returned string
\* spells, each number written by the f-string as Python prints it.
to_geojson(r) ==
    [type |-> "Feature",
     geometry |-> [type |-> "Polygon", coordinates |-> <<GeojsonRing(r)>>]]


(***************************************************************************)
(* enlarge_domain (domains.py:369-396).  factor is the rational            *)
(* num / FactorDen; the callers below only pass factors for which          *)
(* factor*dx and factor*dy are whole numbers of units.                     *)
(***************************************************************************)
Times(num, d) == (num * d) \div FactorDen

\* enlarge_domain growing each side by (1 + factor) times the size.
enlarge_domain_one_more(domain, num) ==
    LET llmm == to_llmm(domain)
        dx == Abs(llmm[2] - llmm[1])
        dy == Abs(llmm[4] - llmm[3])
    IN GeoRectangle(<<Max2(Deg(-180), llmm[1] - Times(num + FactorDen, dx)),
                      Min2(Deg(180), llmm[2] + Times(num + FactorDen, dx)),
                      Max2(Deg(-90), llmm[3] - Times(num + FactorDen, dy)),
                      Min2(Deg(90), llmm[4] + Times(num + FactorDen, dy))>>,
                    "llmm", NoCrs, <<>>)

\* enlarge_domain with the sign of the last term slipped.
enlarge_domain_sign_slip(domain, num) ==
    LET llmm == to_llmm(domain)
        dx == Abs(llmm[2] - llmm[1])
        dy == Abs(llmm[4] - llmm[3])
    IN GeoRectangle(<<Max2(Deg(-180), llmm[1] - Times(num, dx)),
                      Min2(Deg(180), llmm[2] + Times(num, dx)),
                      Max2(Deg(-90), llmm[3] - Times(num, dy)),
                      Min2(Deg(90), llmm[4] - Times(num, dy))>>,
                    "llmm", NoCrs, <<>>)

\* enlarge_domain without the clamping to the global range.
enlarge_domain_unclamped(domain, num) ==
    LET llmm == to_llmm(domain)
        dx == Abs(llmm[2] - llmm[1])
        dy == Abs(llmm[4] - llmm[3])
    IN GeoRectangle(<<llmm[1] - Times(num, dx), llmm[2] + Times(num, dx),
                      llmm[3] - Times(num, dy), llmm[4] + Times(num, dy)>>,
                    "llmm", NoCrs, <<>>)

enlarge_domain(domain, num) ==
    LET llmm == to_llmm(domain)
        xmin == llmm[1]
        xmax == llmm[2]
        ymin == llmm[3]
        ymax == llmm[4]
        dx == Abs(xmax - xmin)
        dy == Abs(ymax - ymin)
        enlarged_llmm == <<Max2(Deg(-180), xmin - Times(num, dx)),
                           Min2(Deg(180), xmax + Times(num, dx)),
                           Max2(Deg(-90), ymin - Times(num, dy)),
                           Min2(Deg(90), ymax + Times(num, dy))>>
    IN GeoRectangle(enlarged_llmm, "llmm", NoCrs, <<>>)

\* GeoRectangle.enlarge (domains.py:287-288)
enlarge(self_, num) == enlarge_domain(self_, num)

(***************************************************************************)
(* bbox_from_bboxs (domains.py:354-361).                                   *)
(***************************************************************************)
RECURSIVE CollectPts(_)
CollectPts(bboxs) ==
    IF bboxs = <<>> THEN <<>>
    ELSE to_bltr(Head(bboxs)) \o CollectPts(Tail(bboxs))

\* A bbox_from_bboxs that only looks at the last rectangle of the list.
bbox_from_bboxs_last_only(bboxs) ==
    GeoRectangle(IF bboxs = <<>> THEN <<>> ELSE to_bltr(bboxs[Len(bboxs)]),
                 "points", NoCrs, <<>>)

bbox_from_bboxs(bboxs) == GeoRectangle(CollectPts(bboxs), "points", NoCrs, <<>>)

(***************************************************************************)
(* The module-level domain registry (domains.py:401-435): the constructor  *)
(* calls made when the module is imported, literals in units of 1e-4       *)
(* degree.                                                                 *)
(***************************************************************************)
RegistryCalls ==
    [ireland |-> [coords |-> <<-111000, -48000, 509000, 556000>>, fmt |-> "llmm"],
     dublin_city |-> [coords |-> <<-63139, -62209, 533321, 533784>>, fmt |-> "llmm"],
     toulouse |-> [coords |-> <<13360, 15080, 435540, 436740>>, fmt |-> "llmm"],
     nanterre |-> [coords |-> <<21660, 22720, 488610, 489360>>, fmt |-> "llmm"],
     dublin_county |->
        [coords |-> [type |-> "Polygon",
                     coordinates |-> << << <<-65469, 531783>>, <<-60440, 531783>>,
                                           <<-60440, 535100>>, <<-65469, 535100>>,
                                           <<-65469, 531783>> >> >>],
         fmt |-> "json"],
     europe |-> [coords |-> <<Deg(-20), Deg(30), Deg(32), Deg(70)>>, fmt |-> "llmm"],
     eurat |-> [coords |-> <<Deg(-32), Deg(42), Deg(20), Deg(72)>>, fmt |-> "llmm"],
     freastern_eurat |-> [coords |-> <<82400, Deg(42), Deg(20), Deg(72)>>, fmt |-> "llmm"],
     reunion_island |-> [coords |-> <<551958, 558723, -214286, -208180>>, fmt |-> "llmm"],
     bigearthnet_fulldom |-> [coords |-> <<-90002, 369570, 315984, 680217>>, fmt |-> "llmm"],
     burren |-> [coords |-> <<-91599, -90469, 530871, 531504>>, fmt |-> "llmm"],
     waterville_kerry |-> [coords |-> <<-102018, -101518, 518020, 518466>>, fmt |-> "llmm"],
     waterville_kerry_124x133 |->
        [coords |-> <<-101600, -101410, 518300, 518410>>, fmt |-> "llmm"],
     florida_mangrove |-> [coords |-> <<-815995, -815664, 259753, 260097>>, fmt |-> "llmm"],
     snaefell_glacier |-> [coords |-> <<-155828, -154863, 647673, 648113>>, fmt |-> "llmm"],
     ngambe_jungle |-> [coords |-> <<105992, 106443, 42156, 42581>>, fmt |-> "llmm"],
     mars_cevennes |-> [coords |-> <<35389, 35836, 439913, 440259>>, fmt |-> "llmm"],
     jokioinen_crops |-> [coords |-> <<234278, 234913, 607896, 608204>>, fmt |-> "llmm"],
     reunion_crops |-> [coords |-> <<556638, 557004, -210505, -210150>>, fmt |-> "llmm"],
     savage_canary_island |->
        [coords |-> <<-158935, -158517, 301319, 301677>>, fmt |-> "llmm"],
     iso_kihdinluoto |->
        [coords |-> [minx |-> 211227, maxx |-> 212393, miny |-> 604839, maxy |-> 606006],
         fmt |-> "tgbox"]]

\* What each module-level name is bound to once the module is imported.
ImportRegistry ==
    [name \in DOMAIN RegistryCalls |->
        GeoRectangle(RegistryCalls[name].coords, RegistryCalls[name].fmt, NoCrs, <<>>)]

(***************************************************************************)
(* State.                                                                  *)
(*   call      the call made last: its name and its arguments              *)
(*   ret       its outcome                                                 *)
(*   self      the GeoRectangle the caller holds (at most one), the        *)
(*             receiver of the method calls: one it constructed or one of  *)
(*             the module-level domains                                    *)
(*   prev      the enlarge call (and outcome) that directly preceded an    *)
(*             enlarge call on the same receiver                           *)
(***************************************************************************)
VARIABLES call, ret, self, prev

(***************************************************************************)
(* State of a find_intersection(dataset, domain, unique) call.             *)
(*   dataset   the dataset argument: whether it has get_boundingbox itself *)
(*             or only through .source, and its tiles' bounding boxes      *)
(*   domain    the domain argument, then the local it is rebound to        *)
(*   unique    the unique argument                                         *)
(*   pc        position in the function: "idle" (not called), "call",     *)
(*             "loop", "done"                                              *)
(*   idx       the loop variable                                           *)
(*   idxs      the list being built                                        *)
(*   asked     every get_boundingbox request made so far, in order         *)
(***************************************************************************)
VARIABLES dataset, domain, unique, pc, idx, idxs, asked

(***************************************************************************)
(* The GeoRectangle instances alive, in order of construction: heap[o] is  *)
(* the four attributes of the instance with reference o.  Only the         *)
(* specification of instances and references (SpecObjects) uses it.        *)
(***************************************************************************)
VARIABLES heap

rvars == <<call, ret, self, prev>>
svars == <<dataset, domain, unique, pc, idx, idxs, asked>>
ovars == <<heap>>
vars == <<rvars, svars, ovars>>

NoPrev == [call |-> [op |-> "none"], ret |-> ReturnValue(<<>>)]

\* Tags outside the supported set, as a caller might pass them.
UnknownTags == {"mmll", "LLMM"}

\* Four numbers read as a pair of pairs, and their first k points.
AsPairs(nums) == <<<<nums[1], nums[2]>>, <<nums[3], nums[4]>>>>
FirstPoints(nums, k) == SubSeq(AsPairs(nums), 1, k)

\* The well-formed coordinate values a caller can build for a tag out of
\* four numbers, following the shapes of the class docstring.
CoordsFor(fmt, nums) ==
    CASE fmt \in {"tlbr", "itlbr", "bltr"} -> {AsPairs(nums)}
      [] fmt \in {"llmm", "lbrt", "epsg"} -> {nums}
      [] fmt = "points" -> {FirstPoints(nums, k) : k \in 0..2}
      [] fmt = "json" ->
           {[type |-> "Polygon", coordinates |-> <<FirstPoints(nums, k)>>] : k \in 0..2}
           \cup {[type |-> "Feature",
                  geometry |-> [type |-> "Polygon",
                                coordinates |-> <<FirstPoints(nums, k)>>]] : k \in 0..2}
      [] fmt = "tgbox" ->
           {[minx |-> nums[1], maxx |-> nums[2], miny |-> nums[3], maxy |-> nums[4]]}
      [] OTHER -> {nums}

\* rasterio.warp.transform_bounds(crs, EPSG:4326, left, bottom, right, top)
\* is an external collaborator: it returns the bounds either as the
\* projected corner values or ordered per axis.
WarpOutcomes(fmt, crs, coords) ==
    IF fmt = "epsg" /\ crs # NoCrs
    THEN {coords,
          <<Min2(coords[1], coords[3]), Min2(coords[2], coords[4]),
            Max2(coords[1], coords[3]), Max2(coords[2], coords[4])>>}
    ELSE {<<>>}

CrsFor(fmt) == IF fmt = "epsg" THEN {NoCrs, "EPSG:4326"} ELSE {NoCrs}

\* No find_intersection call is in progress.
ScanIdle ==
    /\ dataset = [has_get_boundingbox |-> TRUE, tiles |-> <<>>]
    /\ domain = [has_to_sbox |-> FALSE, box |-> <<>>]
    /\ unique = FALSE
    /\ pc = "idle"
    /\ idx = 0
    /\ idxs = <<>>
    /\ asked = <<>>

\* The module is imported.  The caller either holds four numbers to build
\* a rectangle from, or picks one of the module-level domains.
Init ==
    /\ \/ /\ \E nums \in Vals \X Vals \X Vals \X Vals :
                call = [op |-> "input", nums |-> nums]
          /\ ret = ReturnValue(<<>>)
       \/ \E name \in DOMAIN RegistryCalls :
             /\ call = [op |-> "GeoRectangle", fmt |-> RegistryCalls[name].fmt,
                        coords |-> RegistryCalls[name].coords,
                        crs |-> NoCrs, warped |-> <<>>, from |-> name]
             /\ ret = ImportRegistry[name]
    /\ self = ret.rect
    /\ prev = NoPrev
    /\ ScanIdle
    /\ heap = <<>>

\* GeoRectangle(coords, fmt, crs) on coordinates the caller supplies.
New ==
    /\ call.op = "input"
    /\ \E fmt \in SupportedTags \cup UnknownTags :
       \E coords \in CoordsFor(fmt, call.nums) :
       \E crs \in CrsFor(fmt) :
       \E warped \in WarpOutcomes(fmt, crs, coords) :
          /\ call' = [op |-> "GeoRectangle", fmt |-> fmt, coords |-> coords,
                      crs |-> crs, warped |-> warped, from |-> "caller"]
          /\ ret' = GeoRectangle(coords, fmt, crs, warped)
          /\ self' = ret'.rect
    /\ UNCHANGED <<prev, svars, ovars>>

Conversions == {"to_llmm", "to_bltr", "to_lbrt", "to_tlbr", "to_mmll"}

Convert(m, r) ==
    CASE m = "to_llmm" -> to_llmm(r)
      [] m = "to_bltr" -> to_bltr(r)
      [] m = "to_lbrt" -> to_lbrt(r)
      [] m = "to_tlbr" -> to_tlbr(r)
      [] m = "to_mmll" -> to_mmll(r)

\* self.to_llmm(), self.to_bltr(), ...
CallConversion ==
    /\ self # <<>>
    /\ \E m \in Conversions :
          /\ call' = [op |-> m]
          /\ ret' = ReturnValue(Convert(m, self[1]))
    /\ prev' = NoPrev
    /\ UNCHANGED <<self, svars, ovars>>

\* The tags under which a conversion's tuple can be read back.
TagsFor(m) ==
    IF m \in {"to_llmm", "to_lbrt", "to_mmll"} THEN {"llmm", "lbrt"}
    ELSE {"tlbr", "itlbr", "bltr", "points"}

\* GeoRectangle(self.to_xxx(), fmt): the constructor on the tuple a
\* conversion just returned.  The caller keeps self.
Rebuild ==
    /\ call.op \in Conversions
    /\ \E fmt \in TagsFor(call.op) :
          /\ call' = [op |-> "GeoRectangle", fmt |-> fmt, coords |-> ret.value,
                      crs |-> NoCrs, warped |-> <<>>, from |-> call.op]
          /\ ret' = GeoRectangle(ret.value, fmt, NoCrs, <<>>)
    /\ prev' = NoPrev
    /\ UNCHANGED <<self, svars, ovars>>

FactorNums == -1..MaxFactorNum

Exact(num, r) ==
    /\ (num * Abs(r.max_longitude - r.min_longitude)) % FactorDen = 0
    /\ (num * Abs(r.max_latitude - r.min_latitude)) % FactorDen = 0

\* self.enlarge(factor)
CallEnlarge ==
    /\ self # <<>>
    /\ call.op \in {"GeoRectangle", "enlarge"}
    /\ \E num \in FactorNums :
          /\ Exact(num, self[1])
          /\ call' = [op |-> "enlarge", num |-> num]
          /\ ret' = enlarge(self[1], num)
    /\ prev' = IF call.op = "enlarge" THEN [call |-> call, ret |-> ret] ELSE NoPrev
    /\ UNCHANGED <<self, svars, ovars>>

\* bbox_from_bboxs(bboxs) on a list made of the rectangles at hand: self and
\* the rectangle the last call returned.
CallBboxFromBboxs ==
    /\ self # <<>>
    /\ call.op \in {"GeoRectangle", "enlarge"}
    /\ \E bboxs \in {<<>>, self, self \o ret.rect, ret.rect \o self} :
          /\ call' = [op |-> "bbox_from_bboxs", bboxs |-> bboxs]
          /\ ret' = bbox_from_bboxs(bboxs)
    /\ prev' = NoPrev
    /\ UNCHANGED <<self, svars, ovars>>

\* The values of the path argument of to_geojson: None or a file name.
GeojsonPaths == {<<>>, <<"domain.geojson">>}

\* self.to_geojson(path): returns the string and, with a path, writes it
\* into that file (ret.written is what was written).
CallToGeojson ==
    /\ self # <<>>
    /\ call.op = "GeoRectangle"
    /\ \E path \in GeojsonPaths :
          /\ call' = [op |-> "to_geojson", path |-> path]
          /\ ret' = [raised |-> NoError, rect |-> <<>>,
                     value |-> to_geojson(self[1]),
                     written |-> IF path # <<>> THEN <<to_geojson(self[1])>> ELSE <<>>]
    /\ prev' = NoPrev
    /\ UNCHANGED <<self, svars, ovars>>

Next ==
    \/ New
    \/ CallConversion
    \/ Rebuild
    \/ CallEnlarge
    \/ CallBboxFromBboxs
    \/ CallToGeojson

Spec == Init /\ [][Next]_vars

(***************************************************************************)
(* find_intersection (domains.py:307-352).                                 *)
(***************************************************************************)
\* shapely's predicates on two boxes of positive area (closed point sets).
\* An intersection test that needs the interiors to overlap.
IntersectsStrict(a, b) ==
    /\ a.minx < b.maxx /\ b.minx < a.maxx
    /\ a.miny < b.maxy /\ b.miny < a.maxy

Intersects(a, b) ==
    /\ a.minx <= b.maxx /\ b.minx <= a.maxx
    /\ a.miny <= b.maxy /\ b.miny <= a.maxy

\* range(len(dataset))
Len0(ds) == Len(ds.tiles)

\* The bounding box of item i (0-based), whichever object serves it.
BoundingBox(ds, i) == ds.tiles[i + 1]

\* Requests that go to the source wrapper whatever the dataset can do.
AskOneSourceOnly(ds, i) == <<[on |-> "source", idx |-> i, ok |-> TRUE]>>

\* Lines 333-336: dataset.get_boundingbox(idx), and on AttributeError
\* dataset.source.get_boundingbox(idx).  The requests this makes:
AskOne(ds, i) ==
    IF ds.has_get_boundingbox
    THEN <<[on |-> "dataset", idx |-> i, ok |-> TRUE]>>
    ELSE <<[on |-> "dataset", idx |-> i, ok |-> FALSE],
           [on |-> "source", idx |-> i, ok |-> TRUE]>>

RECURSIVE AskEach(_, _)
AskEach(on, is) ==
    IF is = <<>> THEN <<>>
    ELSE <<[on |-> on, idx |-> Head(is), ok |-> TRUE]>> \o AskEach(on, Tail(is))

\* Lines 340-343: the list comprehension over idxs inside the try, run again
\* on dataset.source when the first request raises AttributeError.
AskAll(ds, is) ==
    IF is = <<>> THEN <<>>
    ELSE IF ds.has_get_boundingbox THEN AskEach("dataset", is)
    ELSE <<[on |-> "dataset", idx |-> Head(is), ok |-> FALSE]>> \o AskEach("source", is)

\* An equality of boxes that looks at the latitudes only.
SboxEqualsOnY(a, b) == a.miny = b.miny /\ a.maxy = b.maxy

SboxEquals(a, b) ==
    /\ a.minx = b.minx /\ a.maxx = b.maxx
    /\ a.miny = b.miny /\ a.maxy = b.maxy

\* A dedup that compares with the last accepted item only.
AlreadyInLast(ds, bbox, is) ==
    is # <<>> /\ SboxEquals(bbox, to_sbox(BoundingBox(ds, is[Len(is)])))

\* any([bbox.equals(...get_boundingbox(i).to_sbox()) for i in idxs])
AlreadyIn(ds, bbox, is) ==
    \E k \in 1..Len(is) : SboxEquals(bbox, to_sbox(BoundingBox(ds, is[k])))

\* Bounding boxes of positive area, placed around the query domains so
\* that disjoint, edge-touching, corner-touching, overlapping, identical
\* and containing tiles all occur.
TileBoxes ==
    {Rect(0, 1, 2, 4), Rect(0, 2, 2, 4), Rect(1, 3, 1, 3),
     Rect(4, 5, 4, 5), Rect(2, 4, 5, 6), Rect(2, 4, 2, 4)}

DomainBoxes == {Rect(2, 4, 2, 4), Rect(0, 1, 2, 4)}

RECURSIVE SeqsUpTo(_, _)
SeqsUpTo(S, n) ==
    IF n = 0 THEN {<<>>}
    ELSE LET shorter == SeqsUpTo(S, n - 1)
         IN shorter \cup {Append(q, x) : q \in shorter, x \in S}

\* The caller is about to run find_intersection(dataset, domain, unique);
\* domain is a GeoRectangle (it has to_sbox) or already a shapely box.
ScanInit ==
    /\ call = [op |-> "find_intersection"]
    /\ ret = ReturnValue(<<>>)
    /\ self = <<>>
    /\ prev = NoPrev
    /\ \E tiles \in SeqsUpTo(TileBoxes, MaxTiles), direct \in BOOLEAN :
          dataset = [has_get_boundingbox |-> direct, tiles |-> tiles]
    /\ \E d \in DomainBoxes :
          \/ domain = [has_to_sbox |-> TRUE, box |-> d]
          \/ domain = [has_to_sbox |-> FALSE, box |-> to_sbox(d)]
    /\ unique \in BOOLEAN
    /\ pc = "call"
    /\ idx = 0
    /\ idxs = <<>>
    /\ asked = <<>>
    /\ heap = <<>>

\* An entry that probes item 0 to find out which object serves the boxes.
ScanEnterProbing ==
    /\ pc = "call"
    /\ domain' = IF domain.has_to_sbox
                 THEN [has_to_sbox |-> FALSE, box |-> to_sbox(domain.box)]
                 ELSE domain
    /\ idxs' = <<>>
    /\ idx' = 0
    /\ pc' = "loop"
    /\ asked' = AskOne(dataset, 0)
    /\ UNCHANGED <<rvars, ovars, dataset, unique>>

\* Lines 326-331: rebind domain to its shapely box, start with idxs = [].
ScanEnter ==
    /\ pc = "call"
    /\ domain' = IF domain.has_to_sbox
                 THEN [has_to_sbox |-> FALSE, box |-> to_sbox(domain.box)]
                 ELSE domain
    /\ idxs' = <<>>
    /\ idx' = 0
    /\ pc' = "loop"
    /\ UNCHANGED <<rvars, ovars, dataset, unique, asked>>

\* An iteration that puts the newest index first.
ScanStepNewestFirst ==
    /\ pc = "loop"
    /\ idx < Len0(dataset)
    /\ LET bbox == to_sbox(BoundingBox(dataset, idx))
       IN IF Intersects(domain.box, bbox)
          THEN IF unique
               THEN /\ asked' = asked \o AskOne(dataset, idx) \o AskAll(dataset, idxs)
                    /\ idxs' = IF ~AlreadyIn(dataset, bbox, idxs)
                               THEN <<idx>> \o idxs ELSE idxs
               ELSE /\ asked' = asked \o AskOne(dataset, idx)
                    /\ idxs' = <<idx>> \o idxs
          ELSE /\ asked' = asked \o AskOne(dataset, idx)
               /\ idxs' = idxs
    /\ idx' = idx + 1
    /\ UNCHANGED <<rvars, ovars, dataset, domain, unique, pc>>

\* Lines 332-347: one iteration of the for loop.
ScanStep ==
    /\ pc = "loop"
    /\ idx < Len0(dataset)
    /\ LET bbox == to_sbox(BoundingBox(dataset, idx))
       IN IF Intersects(domain.box, bbox)
          THEN IF unique
               THEN /\ asked' = asked \o AskOne(dataset, idx) \o AskAll(dataset, idxs)
                    /\ idxs' = IF ~AlreadyIn(dataset, bbox, idxs)
                               THEN Append(idxs, idx) ELSE idxs
               ELSE /\ asked' = asked \o AskOne(dataset, idx)
                    /\ idxs' = Append(idxs, idx)
          ELSE /\ asked' = asked \o AskOne(dataset, idx)
               /\ idxs' = idxs
    /\ idx' = idx + 1
    /\ UNCHANGED <<rvars, ovars, dataset, domain, unique, pc>>

\* Line 352: return idxs.
ScanReturn ==
    /\ pc = "loop"
    /\ idx = Len0(dataset)
    /\ pc' = "done"
    /\ ret' = ReturnValue(idxs)
    /\ UNCHANGED <<call, self, prev, ovars, dataset, domain, unique, idx, idxs, asked>>

\* The caller runs find_intersection a second time on the same dataset and
\* domain box with the other value of unique (lines 326-331 again); prev
\* keeps the first call and what it returned.
ScanAgain ==
    /\ pc = "done" /\ prev = NoPrev
    /\ prev' = [call |-> [op |-> "find_intersection", unique |-> unique], ret |-> ret]
    /\ unique' = ~unique
    /\ idxs' = <<>>
    /\ idx' = 0
    /\ asked' = <<>>
    /\ pc' = "loop"
    /\ UNCHANGED <<call, ret, self, ovars, dataset, domain>>

ScanNext ==
    \/ ScanEnter
    \/ ScanStep
    \/ ScanReturn
    \/ ScanAgain

SpecScan == ScanInit /\ [][ScanNext]_vars

(***************************************************************************)
(* Instances and references.  The functions of domains.py take and return  *)
(* references to GeoRectangle instances; each operator below gives the     *)
(* heap after the call and the outcome of the call (out.ref is the         *)
(* reference returned, 0 when none).                                       *)
(***************************************************************************)
\* Most instances alive at once.
MaxObjects == 3

ReturnRef(o) == [raised |-> NoError, ref |-> o, value |-> <<>>]
ReturnTuple(v) == [raised |-> NoError, ref |-> 0, value |-> v]
RaiseNoRef(msg) == [raised |-> msg, ref |-> 0, value |-> <<>>]

\* GeoRectangle(...) as an allocation: a constructor that returns adds one
\* instance, one that raises adds none.
Construct(h, res) ==
    IF res.raised = NoError
    THEN [heap |-> h \o res.rect, out |-> ReturnRef(Len(h) + 1)]
    ELSE [heap |-> h, out |-> RaiseNoRef(res.raised)]

\* get_central_point (domains.py:363-367); the callers below pass
\* rectangles whose sums of bounds are even numbers of units.
get_central_point(d) ==
    <<(d.min_longitude + d.max_longitude) \div 2,
      (d.min_latitude + d.max_latitude) \div 2>>

\* self.to_xxx(): reads the attributes, returns a tuple.
obj_convert(h, o, m) == [heap |-> h, out |-> ReturnTuple(Convert(m, h[o]))]

\* self.central_point() (domains.py:290-291)
obj_central_point(h, o) == [heap |-> h, out |-> ReturnTuple(get_central_point(h[o]))]

\* An enlarge that stores the enlarged bounds in its receiver.
obj_enlarge_in_place(h, o, num) ==
    LET res == enlarge_domain(h[o], num)
    IN IF res.raised = NoError
       THEN [heap |-> [h EXCEPT ![o] = res.rect[1]], out |-> ReturnRef(o)]
       ELSE [heap |-> h, out |-> RaiseNoRef(res.raised)]

\* self.enlarge(factor): enlarge_domain ends with GeoRectangle(enlarged_llmm).
obj_enlarge(h, o, num) == Construct(h, enlarge(h[o], num))

\* bbox_from_bboxs(bboxs), bboxs a list of references.
obj_bbox_from_bboxs(h, os) ==
    Construct(h, bbox_from_bboxs([k \in 1..Len(os) |-> h[os[k]]]))

\* find_intersection(dataset, domain, unique) run to its return, on a
\* dataset whose get_boundingbox(i) is the instance tiles[i+1].  is[1] is
\* the indices visited so far, is[2] the list idxs.
RECURSIVE Scan(_, _, _, _, _)
Scan(h, tiles, dom, uniq, is) ==
    LET i == Len(is[1])
        found == is[2]
        ds == [has_get_boundingbox |-> TRUE,
               tiles |-> [k \in 1..Len(tiles) |-> h[tiles[k]]]]
    IN IF i = Len(tiles) THEN found
       ELSE LET bbox == to_sbox(BoundingBox(ds, i))
                keep == /\ Intersects(dom, bbox)
                        /\ (uniq => ~AlreadyIn(ds, bbox, found))
            IN Scan(h, tiles, dom, uniq,
                    <<Append(is[1], i), IF keep THEN Append(found, i) ELSE found>>)

obj_find_intersection(h, tiles, o, uniq) ==
    [heap |-> h,
     out |-> ReturnTuple(Scan(h, tiles, to_sbox(h[o]), uniq, <<<<>>, <<>>>>))]

\* The rectangles the caller constructs first (llmm order, the last one
\* incoherent).
ObjInputs ==
    {<<Deg(-90), Deg(90), Deg(-40), Deg(40)>>,
     <<Deg(0), Deg(20), Deg(40), Deg(60)>>,
     <<Deg(170), Deg(180), Deg(80), Deg(90)>>,
     <<Deg(20), Deg(0), Deg(40), Deg(60)>>}

ObjInit ==
    /\ \E nums \in ObjInputs :
          LET made == Construct(<<>>, GeoRectangle(nums, "llmm", NoCrs, <<>>))
          IN /\ call = [op |-> "GeoRectangle", fmt |-> "llmm", coords |-> nums,
                        crs |-> NoCrs, warped |-> <<>>, from |-> "caller"]
             /\ heap = made.heap
             /\ ret = made.out
    /\ self = <<>>
    /\ prev = NoPrev
    /\ ScanIdle

Refs == 1..Len(heap)

ObjConvert ==
    /\ \E o \in Refs, m \in Conversions :
          LET done == obj_convert(heap, o, m)
          IN /\ call' = [op |-> m, on |-> <<o>>]
             /\ heap' = done.heap
             /\ ret' = done.out
    /\ UNCHANGED <<self, prev, svars>>

ObjCentralPoint ==
    /\ \E o \in Refs :
          LET done == obj_central_point(heap, o)
          IN /\ call' = [op |-> "central_point", on |-> <<o>>]
             /\ heap' = done.heap
             /\ ret' = done.out
    /\ UNCHANGED <<self, prev, svars>>

ObjEnlarge ==
    /\ Len(heap) < MaxObjects
    /\ \E o \in Refs, num \in FactorNums :
          /\ Exact(num, heap[o])
          /\ LET done == obj_enlarge(heap, o, num)
             IN /\ call' = [op |-> "enlarge", on |-> <<o>>, num |-> num]
                /\ heap' = done.heap
                /\ ret' = done.out
    /\ UNCHANGED <<self, prev, svars>>

ObjBboxFromBboxs ==
    /\ Len(heap) < MaxObjects
    /\ \E os \in SeqsUpTo(Refs, 2) :
          LET done == obj_bbox_from_bboxs(heap, os)
          IN /\ call' = [op |-> "bbox_from_bboxs", on |-> os]
             /\ heap' = done.heap
             /\ ret' = done.out
    /\ UNCHANGED <<self, prev, svars>>

\* find_intersection on a dataset that serves the instances alive.
ObjFindIntersection ==
    /\ \E o \in Refs, uniq \in BOOLEAN :
          LET tiles == [k \in 1..Len(heap) |-> k]
              done == obj_find_intersection(heap, tiles, o, uniq)
          IN /\ call' = [op |-> "find_intersection", on |-> <<o>> \o tiles,
                         unique |-> uniq]
             /\ heap' = done.heap
             /\ ret' = done.out
    /\ UNCHANGED <<self, prev, svars>>

ObjNext ==
    \/ ObjConvert
    \/ ObjCentralPoint
    \/ ObjEnlarge
    \/ ObjBboxFromBboxs
    \/ ObjFindIntersection

SpecObjects == ObjInit /\ [][ObjNext]_vars

(***************************************************************************)
(* The raster datasets' footprint estimate (landcovers.py:238-254 and      *)
(* 359-377).  Extents and resolutions are whole numbers of map units.      *)
(***************************************************************************)
\* Largest width and height of a query domain, in map units.
MaxExtent == 4

\* element_size of the two base classes (bytes per pixel).
TorchgeoLandcover_element_size == 8
ProbaLandcover_element_size == 32

UnboundLocal == "UnboundLocalError: local variable 'qdomain' referenced before assignment"

\* An instance of one of the two base classes (or of a subclass, which
\* inherits element_size and get_bytes_for_domain), with the resolution
\* torchgeo gave it.
TorchgeoLandcover(res) ==
    [cls |-> "TorchgeoLandcover", element_size |-> TorchgeoLandcover_element_size,
     res |-> res]
ProbaLandcover(res) ==
    [cls |-> "ProbaLandcover", element_size |-> ProbaLandcover_element_size,
     res |-> res]

\* A query domain as the caller passes it: a GeoRectangle or a
\* torchgeo BoundingBox.
AsGeoRectangle(r) == [cls |-> "GeoRectangle", rect |-> r]
AsBoundingBox(r) ==
    [cls |-> "BoundingBox", minx |-> r.min_longitude, maxx |-> r.max_longitude,
     miny |-> r.min_latitude, maxy |-> r.max_latitude]

\* Cells needed to cover an extent at a resolution.
CeilDiv(a, b) == (a + b - 1) \div b

\* mmt.utils.misc.get_bytes_for_domain(qdomain, res, element_size): cells
\* along x times cells along y times the element size.
misc_get_bytes_for_domain(qdomain, res, element_size) ==
    CeilDiv(qdomain.max_longitude - qdomain.min_longitude, res)
    * CeilDiv(qdomain.max_latitude - qdomain.min_latitude, res)
    * element_size

\* The tail of both methods: qdomain is bound to a GeoRectangle (or its
\* construction raised).
BytesOf(self_, made) ==
    IF made.raised # NoError THEN Raise(made.raised)
    ELSE ReturnValue(<<misc_get_bytes_for_domain(made.rect[1], self_.res,
                                                 self_.element_size)>>)

\* TorchgeoLandcover.get_bytes_for_domain (landcovers.py:249-254): no else
\* branch, so qdomain is unbound when qb is not a BoundingBox.
TorchgeoLandcover_get_bytes_for_domain(self_, qb) ==
    IF qb.cls = "BoundingBox"
    THEN BytesOf(self_, GeoRectangle(qb, "tgbox", NoCrs, <<>>))
    ELSE Raise(UnboundLocal)

\* ProbaLandcover.get_bytes_for_domain (landcovers.py:370-377)
ProbaLandcover_get_bytes_for_domain(self_, qb) ==
    IF qb.cls = "BoundingBox"
    THEN BytesOf(self_, GeoRectangle(qb, "tgbox", NoCrs, <<>>))
    ELSE BytesOf(self_, ReturnRect(qb.rect))

\* Method dispatch on the class of the dataset.
get_bytes_for_domain(self_, qb) ==
    IF self_.cls = "TorchgeoLandcover"
    THEN TorchgeoLandcover_get_bytes_for_domain(self_, qb)
    ELSE ProbaLandcover_get_bytes_for_domain(self_, qb)

(***************************************************************************)
(* get_resize_from_mapname (io.py:25-45).  A map name is the sequence of   *)
(* its parts, the extension last: "esawc.hdf5" is <<"esawc", ".hdf5">>.    *)
(* The resolution table and patch_size_metres come from                    *)
(* mmt.datasets.landcover_to_landcover and are arguments here.  A Python   *)
(* None is the empty tuple, the integer n is <<n>>.                        *)
(***************************************************************************)
\* Largest number of pixels of the embedding.
MaxPx == 4

PyNone == <<>>
PyInt(n) == <<n>>

KeyError == "KeyError"
AttributeError == "AttributeError"

EmbeddingTypes == {"transformer_embedding", "universal_embedding"}

\* The model types of load_old_pytorch_model / load_pytorch_model.
ModelTypes == EmbeddingTypes \cup {"attention_autoencoder"}

\* A configuration in the old layout and in the new one.
OldConfig(n_px_emb, model_type) ==
    [embedding_dim |-> <<n_px_emb, n_px_emb>>, model_type |-> model_type]
NewConfig(n_px_emb, model_type) ==
    [dimensions |-> [n_px_embedding |-> n_px_emb], model |-> [type |-> model_type]]

\* int(x / y) for x >= 0 and y > 0: the quotient cut towards zero.
IntOfQuotient(x, y) == x \div y

\* A sentinel rule that does not look at the model type.
SentinelAnyType(model_type, resize) ==
    IF resize = 1 THEN PyNone ELSE PyInt(resize)

\* Lines 42-45.
Sentinel(model_type, resize) ==
    IF model_type \in EmbeddingTypes /\ resize = 1 THEN PyNone ELSE PyInt(resize)

get_resize_from_mapname(mapname, config, resolution_dict, patch_size_metres) ==
    LET name == IF mapname[Len(mapname)] # ".hdf5"
                THEN Append(mapname, ".hdf5") ELSE mapname
        old == {"embedding_dim", "model_type"} \subseteq DOMAIN config
        new == {"dimensions", "model"} \subseteq DOMAIN config
        n_px_emb == IF old THEN config.embedding_dim[2]
                    ELSE config.dimensions.n_px_embedding
        model_type == IF old THEN config.model_type ELSE config.model.type
    IN IF ~old /\ ~new THEN Raise(AttributeError)
       ELSE IF name \notin DOMAIN resolution_dict THEN Raise(KeyError)
       ELSE LET resolution == resolution_dict[name]
                resize == IntOfQuotient(n_px_emb * resolution, patch_size_metres)
            IN ReturnValue(Sentinel(model_type, resize))

(***************************************************************************)
(* GeoRectangle.get_utm_crs (domains.py:260-275).  utm_crs_list is what    *)
(* pyproj.database.query_utm_crs_info answered for self.to_aoi(): the EPSG *)
(* codes of the UTM zones, an external collaborator's answer.              *)
(***************************************************************************)
\* Most UTM zones in an answer.
MaxZones == 2

AmbiguousUtm == "Exception: Area of interest covers more than one UTM tile"
IndexError == "IndexError: list index out of range"
UtmWarning == "WARNING: area of interest covers more than one UTM tile"

UtmRaise(msg) == [raised |-> msg, rect |-> <<>>, value |-> <<>>, printed |-> <<>>]
UtmReturn(code, printed) ==
    [raised |-> NoError, rect |-> <<>>, value |-> <<code>>, printed |-> printed]

\* A get_utm_crs that warns whatever the mode.
get_utm_crs_always_lenient(utm_crs_list, raise_exception) ==
    IF utm_crs_list = <<>> THEN UtmRaise(IndexError)
    ELSE UtmReturn(utm_crs_list[1],
                   IF Len(utm_crs_list) > 1 THEN <<UtmWarning>> ELSE <<>>)

get_utm_crs(utm_crs_list, raise_exception) ==
    IF Len(utm_crs_list) > 1 /\ raise_exception THEN UtmRaise(AmbiguousUtm)
    ELSE IF utm_crs_list = <<>> THEN UtmRaise(IndexError)
    ELSE UtmReturn(utm_crs_list[1],
                   IF Len(utm_crs_list) > 1 THEN <<UtmWarning>> ELSE <<>>)

(***************************************************************************)
(* The model loaders (io.py:47-198 and 198-288) as far as the modules they *)
(* construct: each EncDec(...) call is recorded with the product it is for *)
(* and its resize argument.  A product name is a sequence of parts, as in  *)
(* get_resize_from_mapname.                                                *)
(***************************************************************************)
ValueError == "ValueError: Unknown model type"
ZeroDivisionError == "ZeroDivisionError: division by zero"

\* 1/resize for an integer resize other than 0, as a fraction.
Reciprocal(resize) == [num |-> 1, den |-> resize[1]]

\* TransformerEmbedding.__init__ (transformer_embedding.py:626-670) for a
\* resize that is None or an integer: the sub-modules it constructs, in
\* order, each with the resize it is given.  The last two replace the
\* first two as self.encoder and self.decoder.
TransformerEmbedding_init(resize) ==
    LET enc_resize == resize
        dec_resize == resize
        resize_or_1 == IF resize = PyNone THEN PyInt(1) ELSE resize
        first == <<[cls |-> "encoder", resize |-> enc_resize],
                   [cls |-> "decoder", resize |-> dec_resize]>>
    IN IF resize_or_1 = PyInt(0)
       THEN [raised |-> ZeroDivisionError, built |-> first]
       ELSE [raised |-> NoError,
             built |-> first
                       \o <<[cls |-> "AttnInterpAttn", resize |-> Reciprocal(resize_or_1)],
                            [cls |-> "AttnInterpAttn", resize |-> resize_or_1]>>]

\* EncDec(..., resize = resize, ...): the class of transformer_embedding is
\* TransformerEmbedding; the classes of the two other model types live in
\* modules whose constructors are not followed here.
EncDec(model_type, product, resize) ==
    LET inner == IF model_type = "transformer_embedding"
                 THEN TransformerEmbedding_init(resize)
                 ELSE [raised |-> NoError, built |-> <<>>]
    IN [raised |-> inner.raised,
        call |-> [product |-> product, resize |-> resize, built |-> inner.built]]

\* A resize argument in which 1 stands for the sentinel.
ResizeArgumentOrOne(lc, config, resolution_dict, patch_size_metres) ==
    LET got == get_resize_from_mapname(lc, config, resolution_dict, patch_size_metres)
    IN IF got.raised = NoError /\ got.value = PyNone
       THEN ReturnValue(PyInt(1)) ELSE got

\* resize = get_resize_from_mapname(lc, config)
ResizeArgument(lc, config, resolution_dict, patch_size_metres) ==
    get_resize_from_mapname(lc, config, resolution_dict, patch_size_metres)

LoadRaise(msg, made) == [raised |-> msg, rect |-> <<>>, value |-> <<>>, made |-> made]
LoadReturn(made) == [raised |-> NoError, rect |-> <<>>, value |-> <<>>, made |-> made]

\* autoenc = EncDec(..., resize = get_resize_from_mapname(lc, config), ...)
\* after the construction calls in made.
Autoenc(made, model_type, lc, config, resolution_dict, patch_size_metres) ==
    LET got == ResizeArgument(lc, config, resolution_dict, patch_size_metres)
    IN IF got.raised # NoError THEN LoadRaise(got.raised, made)
       ELSE LET module == EncDec(model_type, lc, got.value)
            IN IF module.raised # NoError
               THEN LoadRaise(module.raised, Append(made, module.call))
               ELSE LoadReturn(Append(made, module.call))

\* load_old_pytorch_model (io.py:71-184)
load_old_pytorch_model(lc_in, lc_out, config, resolution_dict, patch_size_metres) ==
    IF Append(lc_in, ".hdf5") \notin DOMAIN resolution_dict
        \/ Append(lc_out, ".hdf5") \notin DOMAIN resolution_dict
    THEN LoadRaise(KeyError, <<>>)
    ELSE IF "embedding_dim" \notin DOMAIN config THEN LoadRaise(AttributeError, <<>>)
    ELSE IF config.model_type \notin ModelTypes THEN LoadRaise(ValueError, <<>>)
    ELSE LET autoenc_in == Autoenc(<<>>, config.model_type, lc_in, config,
                                   resolution_dict, patch_size_metres)
         IN IF autoenc_in.raised # NoError THEN autoenc_in
            ELSE Autoenc(autoenc_in.made, config.model_type, lc_out, config,
                         resolution_dict, patch_size_metres)

\* load_pytorch_model (io.py:237-271)
load_pytorch_model(lc_in, lc_out, config, resolution_dict, patch_size_metres) ==
    IF "model" \notin DOMAIN config THEN LoadRaise(AttributeError, <<>>)
    ELSE IF config.model.type \notin ModelTypes THEN LoadRaise(ValueError, <<>>)
    ELSE IF Append(lc_in, ".hdf5") \notin DOMAIN resolution_dict
    THEN LoadRaise(KeyError, <<>>)
    ELSE LET autoenc_in == Autoenc(<<>>, config.model.type, lc_in, config,
                                   resolution_dict, patch_size_metres)
         IN IF autoenc_in.raised # NoError THEN autoenc_in
            ELSE IF lc_out \in {<<"encoder">>, <<"decoder">>} THEN autoenc_in
            ELSE IF Append(lc_out, ".hdf5") \notin DOMAIN resolution_dict
            THEN LoadRaise(KeyError, autoenc_in.made)
            ELSE Autoenc(autoenc_in.made, config.model.type, lc_out, config,
                         resolution_dict, patch_size_metres)

(***************************************************************************)
(* OpenStreetMap.plot (landcovers.py:513-570) as far as the extent it      *)
(* hands to the map axes.  A sample is a function from its keys to their   *)
(* values; lengths are in the units of Deg.                                *)
(***************************************************************************)
MissingGeoInfo == "ValueError: Sample does not have geographical info"

\* A plot that looks for 'coordinate' before 'bbox'.
OpenStreetMap_plot_coordinate_first(default_patch_size, sample, patch_size) ==
    LET size == IF patch_size = PyNone THEN default_patch_size ELSE patch_size[1]
    IN IF "coordinate" \in DOMAIN sample
       THEN ReturnValue(<<sample["coordinate"][1], sample["coordinate"][1] + size,
                          sample["coordinate"][2] - size, sample["coordinate"][2]>>)
       ELSE IF "bbox" \in DOMAIN sample
       THEN ReturnValue(<<sample["bbox"].minx, sample["bbox"].maxx,
                          sample["bbox"].miny, sample["bbox"].maxy>>)
       ELSE Raise(MissingGeoInfo)

\* Lines 545-562: the value returned is locextent.
OpenStreetMap_plot(default_patch_size, sample, patch_size) ==
    LET size == IF patch_size = PyNone THEN default_patch_size ELSE patch_size[1]
    IN IF "bbox" \in DOMAIN sample
       THEN ReturnValue(<<sample["bbox"].minx, sample["bbox"].maxx,
                          sample["bbox"].miny, sample["bbox"].maxy>>)
       ELSE IF "coordinate" \in DOMAIN sample
       THEN LET minx == sample["coordinate"][1]
                maxy == sample["coordinate"][2]
                maxx == minx + size
                miny == maxy - size
            IN ReturnValue(<<minx, maxx, miny, maxy>>)
       ELSE Raise(MissingGeoInfo)

(***************************************************************************)
(* parse_version_infos (landcovers.py:175-185) and the class attribute     *)
(* EcoclimapSGplus.crs (landcovers.py:620).  A line of the file            *)
(* version-infos.txt is a sequence of pieces of text: the pieces "=" and   *)
(* "\"" are those two characters, every other piece holds neither.         *)
(***************************************************************************)
\* Most lines in a version file.
MaxLines == 2

AssertionError == "AssertionError: Missing version file"
TooManyValues == "ValueError: too many values to unpack (expected 2)"
NotEnoughValues == "ValueError: not enough values to unpack (expected 2)"

\* What os.path.isfile and readlines find under the name
\* version-infos.txt: no file, or a file with these lines.
NoFile == [isfile |-> FALSE, lines |-> <<>>]
VersionFile(lines) == [isfile |-> TRUE, lines |-> lines]

\* s.split(sep): the stretches of s between the occurrences of sep.
RECURSIVE Split(_, _)
Split(s, sep) ==
    IF s = <<>> THEN << <<>> >>
    ELSE LET rest == Split(Tail(s), sep)
         IN IF Head(s) = sep THEN << <<>> >> \o rest
            ELSE << <<Head(s)>> \o rest[1] >> \o Tail(rest)

\* infos[k] = v
SetItem(infos, k, v) ==
    [x \in (DOMAIN infos) \cup {k} |-> IF x = k THEN v ELSE infos[x]]

\* The loop over f.readlines(), then the return.
RECURSIVE ParseLines(_, _)
ParseLines(lines, infos) ==
    IF lines = <<>> THEN ReturnValue(<<infos>>)
    ELSE LET kv == Split(Head(lines), "=")
         IN IF Len(kv) > 2 THEN Raise(TooManyValues)
            ELSE IF Len(kv) < 2 THEN Raise(NotEnoughValues)
            ELSE LET quoted == Split(kv[2], "\"")
                 IN IF Len(quoted) < 2 THEN Raise(IndexError)
                    ELSE ParseLines(Tail(lines), SetItem(infos, kv[1], quoted[2]))

\* parse_version_infos(path), file being what path holds under the name
\* version-infos.txt.
parse_version_infos(file) ==
    IF ~file.isfile THEN Raise(AssertionError)
    ELSE ParseLines(file.lines, <<>>)

\* crs = rasterio.crs.CRS.from_string(parse_version_infos(path)["crs"]):
\* the text handed to rasterio, or the error that stops the class body.
EcoclimapSGplus_crs(file) ==
    LET got == parse_version_infos(file)
    IN IF got.raised # NoError THEN got
       ELSE IF <<"crs">> \notin DOMAIN got.value[1] THEN Raise(KeyError)
       ELSE ReturnValue(got.value[1][<<"crs">>])

(***************************************************************************)
(* The constructor of the EcoclimapSGplus family (landcovers.py:610-627,   *)
(* 704-724, 744-746) as far as self.path.  A path is its directory name    *)
(* and its base name, each a sequence of pieces of text; a piece "-v1.4"   *)
(* is that text and no other piece holds it or a part of it.               *)
(***************************************************************************)
default_ecosgplus_version == "1.4"
default_ecosgml_version == "0.6"

\* f"-v{version}"
VersionFragment(version) ==
    CASE version = "1.3" -> "-v1.3"
      [] version = "1.4" -> "-v1.4"
      [] version = "0.6" -> "-v0.6"

\* os.path.join(dirname, basename), os.path.dirname and os.path.basename
Join(dirname, basename) == [dirname |-> dirname, basename |-> basename]
Dirname(path) == path.dirname
Basename(path) == path.basename

\* s.replace(old, new), every occurrence
Replace(s, old, new) == [k \in DOMAIN s |-> IF s[k] = old THEN new ELSE s[k]]

\* The class attribute path of the three classes that have one.
EcoclimapSGplus_path ==
    Join(<<"data", "/", "tiff_data", "/", "ECOCLIMAP-SG-plus">>,
         <<"ecosgp-labels", VersionFragment(default_ecosgplus_version)>>)
QualityFlagsECOSGplus_path ==
    Join(<<"data", "/", "tiff_data", "/", "ECOCLIMAP-SG-plus">>,
         <<"ecosgp-qflags", VersionFragment(default_ecosgplus_version)>>)
EcoclimapSGML_path ==
    Join(<<"data", "/", "tiff_data", "/", "ECOCLIMAP-SG-ML", "/", "tif">>,
         <<"ECOCLIMAP-SG-ML", VersionFragment(default_ecosgml_version)>>)

\* TorchgeoLandcover.__init__ (244-247): with tgeo_init, torchgeo's
\* RasterDataset.__init__(self.path, ...) indexes the files under
\* self.path.  The paths indexed:
TorchgeoLandcover_init(self_path, tgeo_init) ==
    IF tgeo_init THEN <<self_path>> ELSE <<>>

\* A constructor that rewrites self.path before the base initialisation.
EcoclimapSGplus_init_rewrite_first(self_path, version, tgeo_init) ==
    LET path == Join(Dirname(self_path),
                     Replace(Basename(self_path),
                             VersionFragment(default_ecosgplus_version),
                             VersionFragment(version)))
    IN [raised |-> NoError, rect |-> <<>>, value |-> <<>>,
        indexed |-> TorchgeoLandcover_init(path, tgeo_init), path |-> path]

\* EcoclimapSGplus.__init__(self, version, **kwargs) (622-627) on an
\* instance whose self.path is self_path: what was indexed, and self.path
\* when the constructor returns.
EcoclimapSGplus_init(self_path, version, tgeo_init) ==
    LET indexed == TorchgeoLandcover_init(self_path, tgeo_init)
        path == Join(Dirname(self_path),
                     Replace(Basename(self_path),
                             VersionFragment(default_ecosgplus_version),
                             VersionFragment(version)))
    IN [raised |-> NoError, rect |-> <<>>, value |-> <<>>,
        indexed |-> indexed, path |-> path]

(***************************************************************************)
(* Calls of the functions above on arguments the caller draws.             *)
(***************************************************************************)
Resolutions == 1..3

Datasets ==
    {TorchgeoLandcover(res) : res \in Resolutions}
    \cup {ProbaLandcover(res) : res \in Resolutions}

\* Query domains: every width and height up to MaxExtent, from the origin.
QueryRects == {Rect(0, w, 0, h) : w \in 0..MaxExtent, h \in 0..MaxExtent}

QueryDomains ==
    {AsGeoRectangle(r) : r \in QueryRects} \cup {AsBoundingBox(r) : r \in QueryRects}

MapNames == {<<"esawc">>, <<"esawc", ".hdf5">>, <<"ecosg">>, <<"ecosg", ".hdf5">>}
TableNames == {<<"esawc", ".hdf5">>, <<"ecosg", ".hdf5">>}
PatchSizes == {2, 4}

Configs ==
    {OldConfig(n, t) : n \in 1..MaxPx, t \in ModelTypes}
    \cup {NewConfig(n, t) : n \in 1..MaxPx, t \in ModelTypes}

UtmCodes == {32629, 32630, 32631}

\* Samples: any of the keys 'bbox', 'coordinate' and 'image', the box
\* and the upper-left corner drawn apart from each other.
SampleBoxes == {AsBoundingBox(Rect(Deg(x), Deg(x + 1), Deg(y), Deg(y + 2))) : x \in {-8, 3}, y \in {50}}
SampleCorners == {<<Deg(x), Deg(y)>> : x \in {-8, 10}, y \in {52, 60}}
Samples ==
    {[k \in keys |-> IF k = "bbox" THEN box ELSE IF k = "coordinate" THEN corner ELSE "image"] :
        keys \in SUBSET {"bbox", "coordinate", "image"},
        box \in SampleBoxes, corner \in SampleCorners}
PatchSizeArgs == {PyNone, PyInt(500), PyInt(Deg(1))}
DefaultPatchSizes == {500, Deg(2)}

\* Lines of a version file: two well-formed ones, a value that holds an
\* equals sign, a value without quotes, an empty line, and a line with
\* two quoted texts.
VersionLines ==
    {<<"crs", "=", "\"", "EPSG:4326", "\"", "\n">>,
     <<"version", "=", "\"", "1.4", "\"", "\n">>,
     <<"crs", "=", "\"", "+proj", "=", "longlat", "\"", "\n">>,
     <<"crs", "=", "EPSG:4326", "\n">>,
     <<"\n">>,
     <<"version", "=", "\"", "1.4", "\"", " was ", "\"", "1.3", "\"", "\n">>}
VersionFiles == {NoFile} \cup {VersionFile(lines) : lines \in SeqsUpTo(VersionLines, MaxLines)}

\* The values of the version argument.
Versions == {"1.3", default_ecosgplus_version, default_ecosgml_version}

\* self.path of the classes of the family: the class attribute, or for
\* InferenceResults the path given (the version in the base name, twice
\* in the base name, in the directory name only).
FamilyPaths ==
    {EcoclimapSGplus_path, QualityFlagsECOSGplus_path, EcoclimapSGML_path,
     Join(<<"out">>, <<"maps", "-v1.4", ".", "run", "-v1.4">>),
     Join(<<"out", "-v1.4">>, <<"maps">>),
     Join(<<"out", "-v1.4">>, <<"maps", "-v1.3">>)}

\* Configurations of the loaders: those above and one of a model type
\* that no loader knows.
LoaderConfigs ==
    Configs \cup {OldConfig(1, "unknown"), NewConfig(1, "unknown")}

\* lc_in and lc_out of a loader call.
ProductsIn == MapNames
ProductsOut == {<<"esawc">>, <<"ecosg">>, <<"encoder">>, <<"decoder">>}

\* The caller holds the arguments of one call.
CallsInit ==
    /\ \/ \E ds \in Datasets, qb \in QueryDomains :
             call = [op |-> "input", fn |-> "get_bytes_for_domain",
                     self |-> ds, qb |-> qb]
       \/ \E mapname \in MapNames, config \in Configs, patch \in PatchSizes :
          \E table \in [TableNames -> Resolutions] :
             call = [op |-> "input", fn |-> "get_resize_from_mapname",
                     mapname |-> mapname, config |-> config,
                     resolution_dict |-> table, patch_size_metres |-> patch]
       \/ \E zones \in SeqsUpTo(UtmCodes, MaxZones), raise_exception \in BOOLEAN :
             call = [op |-> "input", fn |-> "get_utm_crs",
                     utm_crs_list |-> zones, raise_exception |-> raise_exception]
       \/ \E sample \in Samples, patch_size \in PatchSizeArgs,
             default_patch_size \in DefaultPatchSizes :
             call = [op |-> "input", fn |-> "plot", sample |-> sample,
                     patch_size |-> patch_size,
                     default_patch_size |-> default_patch_size]
       \/ \E file \in VersionFiles :
             call = [op |-> "input", fn |-> "parse_version_infos", file |-> file]
       \/ \E path \in FamilyPaths, version \in Versions, tgeo_init \in BOOLEAN :
             call = [op |-> "input", fn |-> "EcoclimapSGplus", path |-> path,
                     version |-> version, tgeo_init |-> tgeo_init]
       \/ \E loader \in {"load_old_pytorch_model", "load_pytorch_model"},
             lc_in \in ProductsIn, lc_out \in ProductsOut,
             config \in LoaderConfigs, patch \in PatchSizes :
          \E table \in [TableNames -> Resolutions] :
             call = [op |-> "input", fn |-> "load_model", loader |-> loader,
                     lc_in |-> lc_in, lc_out |-> lc_out, config |-> config,
                     resolution_dict |-> table, patch_size_metres |-> patch]
    /\ ret = ReturnValue(<<>>)
    /\ self = <<>>
    /\ prev = NoPrev
    /\ ScanIdle
    /\ heap = <<>>

\* dataset.get_bytes_for_domain(qb)
CallGetBytes ==
    /\ call.op = "input" /\ call.fn = "get_bytes_for_domain"
    /\ call' = [op |-> "get_bytes_for_domain", self |-> call.self, qb |-> call.qb]
    /\ ret' = get_bytes_for_domain(call.self, call.qb)
    /\ UNCHANGED <<self, prev, svars, ovars>>

\* A second get_bytes_for_domain call on the same dataset, with another
\* query domain; prev keeps the first call and its outcome.
CallGetBytesAgain ==
    /\ call.op = "get_bytes_for_domain" /\ prev = NoPrev
    /\ \E qb \in QueryDomains :
          /\ call' = [op |-> "get_bytes_for_domain", self |-> call.self, qb |-> qb]
          /\ ret' = get_bytes_for_domain(call.self, qb)
    /\ prev' = [call |-> call, ret |-> ret]
    /\ UNCHANGED <<self, svars, ovars>>

CallGetResize ==
    /\ call.op = "input" /\ call.fn = "get_resize_from_mapname"
    /\ call' = [call EXCEPT !.op = "get_resize_from_mapname"]
    /\ ret' = get_resize_from_mapname(call.mapname, call.config,
                                      call.resolution_dict, call.patch_size_metres)
    /\ UNCHANGED <<self, prev, svars, ovars>>

\* self.get_utm_crs(raise_exception), pyproj answering utm_crs_list.
CallGetUtmCrs ==
    /\ call.op = "input" /\ call.fn = "get_utm_crs"
    /\ call' = [call EXCEPT !.op = "get_utm_crs"]
    /\ ret' = get_utm_crs(call.utm_crs_list, call.raise_exception)
    /\ UNCHANGED <<self, prev, svars, ovars>>

\* load_old_pytorch_model(xp_name, lc_in, lc_out) or
\* load_pytorch_model(xp_name, lc_in, lc_out), the experiment xp_name
\* holding the configuration config.
CallLoadModel ==
    /\ call.op = "input" /\ call.fn = "load_model"
    /\ call' = [call EXCEPT !.op = call.loader]
    /\ ret' = IF call.loader = "load_old_pytorch_model"
              THEN load_old_pytorch_model(call.lc_in, call.lc_out, call.config,
                                          call.resolution_dict, call.patch_size_metres)
              ELSE load_pytorch_model(call.lc_in, call.lc_out, call.config,
                                      call.resolution_dict, call.patch_size_metres)
    /\ UNCHANGED <<self, prev, svars, ovars>>

\* OpenStreetMap(default_patch_size = ...).plot(sample, patch_size)
CallPlot ==
    /\ call.op = "input" /\ call.fn = "plot"
    /\ call' = [call EXCEPT !.op = "plot"]
    /\ ret' = OpenStreetMap_plot(call.default_patch_size, call.sample, call.patch_size)
    /\ UNCHANGED <<self, prev, svars, ovars>>

\* The class body of EcoclimapSGplus is executed on a data directory: ret
\* is the outcome of parse_version_infos(path), ret.crs that of the whole
\* attribute definition.
CallParseVersionInfos ==
    /\ call.op = "input" /\ call.fn = "parse_version_infos"
    /\ call' = [call EXCEPT !.op = "parse_version_infos"]
    /\ ret' = LET got == parse_version_infos(call.file)
              IN [raised |-> got.raised, rect |-> <<>>, value |-> got.value,
                  crs |-> EcoclimapSGplus_crs(call.file)]
    /\ UNCHANGED <<self, prev, svars, ovars>>

\* cls(version = version, tgeo_init = tgeo_init) for a class of the
\* family; call.path is self.path when EcoclimapSGplus.__init__ starts.
CallEcoclimapSGplus ==
    /\ call.op = "input" /\ call.fn = "EcoclimapSGplus"
    /\ call' = [call EXCEPT !.op = "EcoclimapSGplus"]
    /\ ret' = EcoclimapSGplus_init(call.path, call.version, call.tgeo_init)
    /\ UNCHANGED <<self, prev, svars, ovars>>

CallsNext ==
    \/ CallGetBytes
    \/ CallGetBytesAgain
    \/ CallGetResize
    \/ CallGetUtmCrs
    \/ CallLoadModel
    \/ CallPlot
    \/ CallParseVersionInfos
    \/ CallEcoclimapSGplus

SpecCalls == CallsInit /\ [][CallsNext]_vars

(***************************************************************************)
(* Properties.                                                             *)
(***************************************************************************)
Coherent(r) ==
    r.min_longitude <= r.max_longitude /\ r.min_latitude <= r.max_latitude

\* Every GeoRectangle in the state: the receiver (constructed by the
\* caller or taken from the registry), the one returned last, and the one
\* returned by the enlarge call before.
RectsAlive ==
    {self[i] : i \in DOMAIN self}
    \cup {ret.rect[i] : i \in DOMAIN ret.rect}
    \cup {prev.ret.rect[i] : i \in DOMAIN prev.ret.rect}

\* C1: every GeoRectangle that exists after a successful construction
\* (any format tag, enlarge, bbox_from_bboxs, registry entry) has
\* min_longitude <= max_longitude and min_latitude <= max_latitude, and
\* every call that returned produced such a rectangle.
C1_RectanglesCoherent ==
    /\ \A r \in RectsAlive : Coherent(r)
    /\ (call.op \in {"GeoRectangle", "enlarge", "bbox_from_bboxs"} /\ ret.raised = NoError)
          => Len(ret.rect) = 1

\* A union of two different rectangles (the receiver and an enlarged one)
\* was built.
C1_Witness ==
    /\ call.op = "bbox_from_bboxs"
    /\ Len(call.bboxs) = 2
    /\ call.bboxs[1] # call.bboxs[2]
    /\ ret.raised = NoError
    /\ ret.rect # <<>>

\* The four fields a format tag's input shape denotes, read from the
\* format table (0-based coords[i][j] is coords[i+1][j+1] here), in the
\* order min_longitude, max_longitude, min_latitude, max_latitude.
TableFields(c) ==
    CASE c.fmt = "tlbr" -> <<c.coords[1][1], c.coords[2][1], c.coords[2][2], c.coords[1][2]>>
      [] c.fmt = "itlbr" -> <<c.coords[1][2], c.coords[2][2], c.coords[2][1], c.coords[1][1]>>
      [] c.fmt = "bltr" -> <<c.coords[1][1], c.coords[1][2], c.coords[2][1], c.coords[2][2]>>
      [] c.fmt = "llmm" -> <<c.coords[1], c.coords[2], c.coords[3], c.coords[4]>>
      [] c.fmt = "lbrt" -> <<c.coords[1], c.coords[3], c.coords[2], c.coords[4]>>
      [] c.fmt = "tgbox" -> <<c.coords.minx, c.coords.maxx, c.coords.miny, c.coords.maxy>>
      [] c.fmt = "epsg" -> <<c.warped[1], c.warped[3], c.warped[2], c.warped[4]>>

\* The tags whose input carries the four fields directly, and a call of
\* the constructor that got as far as extracting them.
ExtractsFields(c) ==
    /\ c.op = "GeoRectangle"
    /\ c.fmt \in {"tlbr", "itlbr", "bltr", "llmm", "lbrt", "tgbox", "epsg"}
    /\ c.fmt = "epsg" => c.crs # NoCrs

\* C2: for every format tag and every input whose extracted fields have
\* min_longitude > max_longitude or min_latitude > max_latitude, the
\* construction raises the invalid-domain error and produces no rectangle.
\* (Point lists and GeoJSON rings are covered by the empty list, the only
\* one whose extracted bounds are reversed.)
C2_IncoherentInputRaisesInvalidDomain ==
    /\ (ExtractsFields(call)
        /\ (TableFields(call)[1] > TableFields(call)[2]
            \/ TableFields(call)[3] > TableFields(call)[4]))
       => (ret.raised = IncoherentMinMax /\ ret.rect = <<>>)
    /\ (call.op = "GeoRectangle" /\ call.fmt = "points" /\ call.coords = <<>>)
       => (ret.raised = IncoherentMinMax /\ ret.rect = <<>>)

\* C3: the constructor fails with the unsupported-format error if and only
\* if the tag is not one of the nine supported tags.
C3_UnknownFormatIffUnsupportedTag ==
    call.op = "GeoRectangle"
       => (ret.raised = UnknownFormat <=> call.fmt \notin SupportedTags)

\* C4: for a logical box (min_lon <= max_lon, min_lat <= max_lat), the
\* constructor succeeds on its tlbr, bltr, llmm and lbrt encodings and
\* yields the box's four fields under each of them.
C4_FourEncodingsAgree ==
    (call.op = "GeoRectangle" /\ call.from = "caller"
     /\ call.fmt \in {"tlbr", "bltr", "llmm", "lbrt"})
       => LET b == TableFields(call)
          IN (b[1] <= b[2] /\ b[3] <= b[4])
                => ret = ReturnRect(Rect(b[1], b[2], b[3], b[4]))

\* C5: for any valid rectangle R, GeoRectangle(R.to_llmm(), fmt="llmm")
\* succeeds and has the same four fields as R.
C5_LlmmRoundTrip ==
    (call.op = "GeoRectangle" /\ call.from = "to_llmm" /\ call.fmt = "llmm")
       => (ret.raised = NoError /\ ret.rect = self)

\* The round trip was made on a rectangle whose four fields differ.
C5_Witness ==
    /\ call.op = "GeoRectangle" /\ call.from = "to_llmm" /\ call.fmt = "llmm"
    /\ ret.rect = self
    /\ Cardinality({self[1].min_longitude, self[1].max_longitude,
                    self[1].min_latitude, self[1].max_latitude}) = 4

(***************************************************************************)
(* Properties of find_intersection, stated on point sets: a box of the     *)
(* scan model has integer corners, so two boxes share a point exactly when *)
(* they share a point of the integer grid that covers them, and two boxes  *)
(* are the same point set exactly when they hold the same grid points.     *)
(***************************************************************************)
Grid == 0..6

\* (x, y) lies in the closed rectangle with the fields of r.
InRect(x, y, r) ==
    /\ r.min_longitude <= x /\ x <= r.max_longitude
    /\ r.min_latitude <= y /\ y <= r.max_latitude

\* The query domain as a rectangle, whichever form the argument has.
DomainRect ==
    IF domain.has_to_sbox THEN domain.box
    ELSE Rect(domain.box.minx, domain.box.maxx, domain.box.miny, domain.box.maxy)

SharePoint(a, b) == \E x \in Grid, y \in Grid : InRect(x, y, a) /\ InRect(x, y, b)

SamePoints(a, b) == \A x \in Grid, y \in Grid : InRect(x, y, a) <=> InRect(x, y, b)

\* The indices of the tiles whose bounding box intersects the domain.
Hits == {i \in 0..(Len(dataset.tiles) - 1) : SharePoint(dataset.tiles[i + 1], DomainRect)}

StrictlyIncreasing(q) == \A j, k \in DOMAIN q : j < k => q[j] < q[k]

Elems(q) == {q[k] : k \in DOMAIN q}

\* C6: with unique=false, find_intersection returns exactly the indices
\* whose tile bounding box intersects the domain (touching counts,
\* disjoint does not), each once, in increasing order.
C6_AllIntersectingInOrder ==
    (pc = "done" /\ ~unique)
       => (ret.raised = NoError /\ StrictlyIncreasing(ret.value) /\ Elems(ret.value) = Hits)

\* A scan that returned a tile which only touches the domain, skipped a
\* disjoint one, and returned at least two indices.
C6_Witness ==
    /\ pc = "done" /\ ~unique
    /\ Len(ret.value) >= 2
    /\ \E i \in Hits :
          /\ i \in Elems(ret.value)
          /\ dataset.tiles[i + 1].max_longitude = DomainRect.min_longitude
    /\ \E i \in 0..(Len(dataset.tiles) - 1) : i \notin Hits /\ i \notin Elems(ret.value)

\* C7: with unique=true no two returned indices have geometrically equal
\* bounding boxes, and of the intersecting tiles that share a bounding box
\* exactly one is returned; with unique=false all of them are returned.
C7_UniqueDedup ==
    pc = "done"
       => IF unique
          THEN /\ \A j, k \in DOMAIN ret.value :
                     j # k => ~SamePoints(dataset.tiles[ret.value[j] + 1],
                                          dataset.tiles[ret.value[k] + 1])
               /\ \A i \in Hits :
                     Cardinality({k \in DOMAIN ret.value :
                                     SamePoints(dataset.tiles[ret.value[k] + 1],
                                                dataset.tiles[i + 1])}) = 1
          ELSE \A i \in Hits : Cardinality({k \in DOMAIN ret.value : ret.value[k] = i}) = 1

\* A unique scan met the same intersecting box at indices h < i < j with a
\* different intersecting box in between, and returned h but not j.
C7_Witness ==
    /\ pc = "done" /\ unique
    /\ \E h, i, j \in Hits :
          /\ h < i /\ i < j
          /\ dataset.tiles[h + 1] = dataset.tiles[j + 1]
          /\ dataset.tiles[h + 1] # dataset.tiles[i + 1]
          /\ h \in Elems(ret.value)
          /\ j \notin Elems(ret.value)

\* C8: on a dataset of length 0 find_intersection returns the empty list,
\* for any domain and either value of unique, and requests no bounding box:
\* the loop body never runs and the only step left is the return.
C8_EmptyDataset ==
    (pc # "idle" /\ Len(dataset.tiles) = 0)
       => /\ asked = <<>>
          /\ idxs = <<>>
          /\ pc = "loop" => idx = Len(dataset.tiles)
          /\ pc = "done" => (ret.raised = NoError /\ ret.value = <<>>)

\* The call returned on an empty dataset, with unique set and a domain that
\* had to be converted.
C8_Witness ==
    /\ pc = "done" /\ Len(dataset.tiles) = 0 /\ unique
    /\ ret.value = <<>>
    /\ domain.box = to_sbox(Rect(2, 4, 2, 4))

(***************************************************************************)
(* Properties of enlarge.                                                  *)
(***************************************************************************)
\* r lies in the global range [-180,180] x [-90,90].
InGlobalRange(r) ==
    /\ Deg(-180) <= r.min_longitude /\ r.max_longitude <= Deg(180)
    /\ Deg(-90) <= r.min_latitude /\ r.max_latitude <= Deg(90)

\* outer contains inner: min fields <=, max fields >=, on both axes.
Contains(outer, inner) ==
    /\ outer.min_longitude <= inner.min_longitude
    /\ outer.max_longitude >= inner.max_longitude
    /\ outer.min_latitude <= inner.min_latitude
    /\ outer.max_latitude >= inner.max_latitude

\* C9 as stated: for any valid rectangle R, R.enlarge(0) succeeds and
\* returns a rectangle with the four fields of R.
C9_EnlargeZeroIsIdentity ==
    (call.op = "enlarge" /\ call.num = 0)
       => (ret.raised = NoError /\ ret.rect = self)

\* C9 (amended): for any valid rectangle R that lies in the global range
\* [-180,180] x [-90,90], R.enlarge(0) succeeds and returns a rectangle
\* with the four fields of R.
C9_EnlargeZeroInRange ==
    (call.op = "enlarge" /\ call.num = 0 /\ InGlobalRange(self[1]))
       => (ret.raised = NoError /\ ret.rect = self)

\* enlarge(0) was called on a rectangle of positive width and height that
\* lies in the global range.
C9_Witness ==
    /\ call.op = "enlarge" /\ call.num = 0
    /\ InGlobalRange(self[1])
    /\ self[1].min_longitude < self[1].max_longitude
    /\ self[1].min_latitude < self[1].max_latitude
    /\ ret.rect = self

\* Two successive enlarge calls on the same rectangle, by factors
\* 0 <= factor1 < factor2 (in either order of calling).
EnlargedTwice ==
    /\ call.op = "enlarge" /\ prev.call.op = "enlarge"
    /\ call.num >= 0 /\ prev.call.num >= 0
    /\ call.num # prev.call.num

Smaller == IF call.num < prev.call.num THEN ret ELSE prev.ret
Larger == IF call.num < prev.call.num THEN prev.ret ELSE ret

Nested ==
    /\ Smaller.raised = NoError /\ Larger.raised = NoError
    /\ Contains(Larger.rect[1], Smaller.rect[1])
    /\ Contains(Smaller.rect[1], self[1])

\* C10 as stated: for any valid rectangle R and factor2 > factor1 >= 0,
\* R.enlarge(factor2) contains R.enlarge(factor1), which contains R.
C10_EnlargeMonotone == EnlargedTwice => Nested

\* C10 (amended): for any valid rectangle R that lies in the global range
\* [-180,180] x [-90,90] and factor2 > factor1 >= 0, R.enlarge(factor2)
\* contains R.enlarge(factor1), which contains R, clamping included.
C10_EnlargeMonotoneInRange == (EnlargedTwice /\ InGlobalRange(self[1])) => Nested

\* Two enlargements by positive factors of a rectangle in range, the larger
\* clamped at +180 longitude and -90 latitude where the smaller is not,
\* and not clamped at -180 longitude.
C10_Witness ==
    /\ EnlargedTwice /\ InGlobalRange(self[1])
    /\ Smaller.raised = NoError /\ Larger.raised = NoError
    /\ Smaller.rect[1] # self[1]
    /\ Larger.rect[1].max_longitude = Deg(180) /\ Smaller.rect[1].max_longitude < Deg(180)
    /\ Larger.rect[1].min_latitude = Deg(-90) /\ Smaller.rect[1].min_latitude > Deg(-90)
    /\ Larger.rect[1].min_longitude > Deg(-180)

\* The enlargement formula, without division: den * result field against
\* den * bound and den * field -/+ num * size.
EnlargedAsStated(r, num, e) ==
    LET w == r.max_longitude - r.min_longitude
        h == r.max_latitude - r.min_latitude
    IN /\ FactorDen * e.min_longitude
            = Max2(FactorDen * Deg(-180), FactorDen * r.min_longitude - num * w)
       /\ FactorDen * e.max_longitude
            = Min2(FactorDen * Deg(180), FactorDen * r.max_longitude + num * w)
       /\ FactorDen * e.min_latitude
            = Max2(FactorDen * Deg(-90), FactorDen * r.min_latitude - num * h)
       /\ FactorDen * e.max_latitude
            = Min2(FactorDen * Deg(90), FactorDen * r.max_latitude + num * h)

\* C11 as stated: for any valid rectangle R and any factor >= 0,
\* R.enlarge(factor) returns a rectangle whose four fields are the clamped
\* enlargement formula and lie inside [-180,180] x [-90,90].
C11_EnlargeFormula ==
    (call.op = "enlarge" /\ call.num >= 0)
        => /\ ret.raised = NoError
           /\ Len(ret.rect) = 1
           /\ EnlargedAsStated(self[1], call.num, ret.rect[1])
           /\ InGlobalRange(ret.rect[1])

\* C11 amended: for any rectangle R inside [-180,180] x [-90,90] and any
\* factor >= 0, R.enlarge(factor) returns a rectangle whose four fields are
\* the clamped enlargement formula and lie inside the global range.
C11_EnlargeFormulaInRange ==
    (call.op = "enlarge" /\ call.num >= 0 /\ InGlobalRange(self[1]))
        => /\ ret.raised = NoError
           /\ Len(ret.rect) = 1
           /\ EnlargedAsStated(self[1], call.num, ret.rect[1])
           /\ InGlobalRange(ret.rect[1])

\* A rectangle inside the global range was enlarged by a positive factor,
\* its eastern side was cut at 180 and its western side was not cut.
C11_Witness ==
    /\ call.op = "enlarge" /\ call.num > 0
    /\ InGlobalRange(self[1])
    /\ Len(ret.rect) = 1
    /\ self[1].max_longitude < Deg(180)
    /\ FactorDen * self[1].max_longitude
          + call.num * (self[1].max_longitude - self[1].min_longitude)
          > FactorDen * Deg(180)
    /\ ret.rect[1].max_longitude = Deg(180)
    /\ ret.rect[1].min_longitude > Deg(-180)

(***************************************************************************)
(* Properties of instances.                                                *)
(***************************************************************************)
\* Every instance alive before the step is alive after it with the same
\* four fields.
FieldsKept ==
    \A o \in 1..Len(heap) : Len(heap') >= o /\ heap'[o] = heap[o]

\* A step that is an enlarge or bbox_from_bboxs call which returned,
\* returned a reference that no instance had before the step.
FreshResult ==
    (call'.op \in {"enlarge", "bbox_from_bboxs"} /\ ret'.raised = NoError)
        => /\ ret'.ref \notin 1..Len(heap)
           /\ ret'.ref \in 1..Len(heap')
           /\ \A k \in 1..Len(call'.on) : ret'.ref # call'.on[k]

\* C12: after construction the four fields of a GeoRectangle never change:
\* enlarge, central_point, bbox_from_bboxs, find_intersection and every
\* to_* conversion leave the fields of their input rectangles unchanged,
\* and enlarge and bbox_from_bboxs return a new instance distinct from
\* their inputs.
C12_NeverMutated == [][FieldsKept /\ FreshResult]_vars

\* An enlarge call returned a second instance whose fields differ from
\* those of its receiver.
C12_Witness ==
    /\ call.op = "enlarge" /\ ret.raised = NoError
    /\ Len(call.on) = 1
    /\ ret.ref = Len(heap) /\ ret.ref # call.on[1]
    /\ heap[ret.ref] # heap[call.on[1]]

(***************************************************************************)
(* Properties of the footprint estimate.                                   *)
(***************************************************************************)
\* The bounds of a query domain of either kind: min x, max x, min y, max y.
QbBounds(qb) ==
    IF qb.cls = "GeoRectangle"
    THEN <<qb.rect.min_longitude, qb.rect.max_longitude,
           qb.rect.min_latitude, qb.rect.max_latitude>>
    ELSE <<qb.minx, qb.maxx, qb.miny, qb.maxy>>

QbWidth(qb) == QbBounds(qb)[2] - QbBounds(qb)[1]
QbHeight(qb) == QbBounds(qb)[4] - QbBounds(qb)[3]

\* The least number of cells of size res that cover an extent.
CellsAlong(extent, res) ==
    CHOOSE n \in 0..extent : n * res >= extent /\ (n = 0 \/ (n - 1) * res < extent)

\* The element size the claim gives each kind of raster.
StatedElementSize(ds) == IF ds.cls = "ProbaLandcover" THEN 32 ELSE 8

GetBytesTwice ==
    call.op = "get_bytes_for_domain" /\ prev.call.op = "get_bytes_for_domain"

\* C13: for label rasters and probability rasters alike,
\* get_bytes_for_domain(qb) accepts a GeoRectangle and a foreign bounding
\* box: the call does not fail, and two calls on the same dataset with
\* domains of the same bounds give the same byte count.
C13_AcceptsBothKinds ==
    (call.op = "get_bytes_for_domain")
        => /\ ret.raised = NoError
           /\ Len(ret.value) = 1
           /\ (GetBytesTwice /\ QbBounds(prev.call.qb) = QbBounds(call.qb))
                 => prev.ret = ret

\* C14: get_bytes_for_domain returns (cells along x) * (cells along y) *
\* element size, the element size being 8 for label rasters and 32 for
\* probability rasters; and of two calls on the same dataset with domains
\* of the same height, the second twice as wide as the first, the second
\* count is twice the first to within one column of cells.
C14_BytesFormula ==
    (call.op = "get_bytes_for_domain")
        => /\ ret.raised = NoError
           /\ ret.value = <<CellsAlong(QbWidth(call.qb), call.self.res)
                            * CellsAlong(QbHeight(call.qb), call.self.res)
                            * StatedElementSize(call.self)>>
           /\ (/\ GetBytesTwice
               /\ QbHeight(prev.call.qb) = QbHeight(call.qb)
               /\ QbWidth(call.qb) = 2 * QbWidth(prev.call.qb))
                 => /\ prev.ret.raised = NoError
                    /\ Abs(ret.value[1] - 2 * prev.ret.value[1])
                         <= CellsAlong(QbHeight(call.qb), call.self.res)
                            * StatedElementSize(call.self)

(***************************************************************************)
(* Properties of get_resize_from_mapname.                                  *)
(***************************************************************************)
ResizeCalled == call.op = "get_resize_from_mapname"

\* The arguments of the call as the formula reads them: the name with its
\* extension, the embedding pixels and the model type of either layout.
FullName == IF call.mapname[Len(call.mapname)] = ".hdf5" THEN call.mapname
            ELSE call.mapname \o <<".hdf5">>
EmbeddingPixels ==
    IF "dimensions" \in DOMAIN call.config
    THEN call.config.dimensions.n_px_embedding
    ELSE call.config.embedding_dim[2]
ModelType ==
    IF "model" \in DOMAIN call.config
    THEN call.config.model.type ELSE call.config.model_type

\* embedding_pixels * product_resolution, to be divided by
\* patch_size_metres.
Dividend == EmbeddingPixels * call.resolution_dict[FullName]

\* n is round(x / y), the nearest integer to the quotient, a tie going to
\* the even neighbour (Python's round).
IsRound(n, x, y) ==
    /\ 2 * Abs(x - n * y) <= y
    /\ (2 * Abs(x - n * y) = y => n % 2 = 0)

\* n is the quotient x / y cut towards zero, for x >= 0 and y > 0.
IsTruncation(n, x, y) == n * y <= x /\ x < (n + 1) * y

\* The factor behind the value returned: 1 behind the sentinel.
FactorReturned == IF ret.value = <<>> THEN 1 ELSE ret.value[1]

\* C15: for every map product and model configuration, the resize factor
\* computed by get_resize_from_mapname is
\* round(embedding_pixels * product_resolution / patch_size_metres), the
\* nearest integer to the quotient and not its truncation, before the
\* sentinel rule is applied.
C15_ResizeIsRounded ==
    ResizeCalled
        => /\ ret.raised = NoError
           /\ IsRound(FactorReturned, Dividend, call.patch_size_metres)

\* C16: get_resize_from_mapname returns the sentinel None if and only if
\* the computed factor is exactly 1 and the model type is
\* transformer_embedding or universal_embedding; for any other model type
\* a factor of 1 is returned as the integer 1, and any factor other than 1
\* is returned as that integer.
C16_SentinelIffOneAndEmbedding ==
    ResizeCalled
        => /\ ret.raised = NoError
           /\ Len(ret.value) <= 1
           /\ IsTruncation(FactorReturned, Dividend, call.patch_size_metres)
           /\ ret.value = <<>>
                <=> (/\ IsTruncation(1, Dividend, call.patch_size_metres)
                     /\ ModelType \in {"transformer_embedding", "universal_embedding"})

\* A call with a factor of 1 that returned the sentinel for an embedding
\* model, the map name given without its extension, the configuration in
\* the new layout.
C16_Witness ==
    /\ ResizeCalled
    /\ Len(call.mapname) = 1
    /\ "model" \in DOMAIN call.config
    /\ ModelType = "universal_embedding"
    /\ Dividend = call.patch_size_metres
    /\ ret.raised = NoError /\ ret.value = <<>>

(***************************************************************************)
(* Properties of get_utm_crs.                                              *)
(***************************************************************************)
UtmCalled == call.op = "get_utm_crs"

ZonesFound == Len(call.utm_crs_list)

FromPoints ==
    call.op = "GeoRectangle" /\ call.fmt \in {"points", "json"}

\* The points supplied: the list itself, or the ring of the polygon.
SuppliedPoints ==
    IF call.fmt = "points" THEN call.coords
    ELSE IF "geometry" \in DOMAIN call.coords
         THEN call.coords.geometry.coordinates[1]
         ELSE call.coords.coordinates[1]

\* r is the exact bounding box of the points: every point is inside and
\* every bound is the coordinate of some point.
ExactBox(r, pts) ==
    /\ \A k \in 1..Len(pts) :
          /\ r.min_longitude <= pts[k][1] /\ pts[k][1] <= r.max_longitude
          /\ r.min_latitude <= pts[k][2] /\ pts[k][2] <= r.max_latitude
    /\ \E k \in 1..Len(pts) : pts[k][1] = r.min_longitude
    /\ \E k \in 1..Len(pts) : pts[k][1] = r.max_longitude
    /\ \E k \in 1..Len(pts) : pts[k][2] = r.min_latitude
    /\ \E k \in 1..Len(pts) : pts[k][2] = r.max_latitude

PointsInGlobalRange(pts) ==
    \A k \in 1..Len(pts) :
       /\ Deg(-180) <= pts[k][1] /\ pts[k][1] <= Deg(180)
       /\ Deg(-90) <= pts[k][2] /\ pts[k][2] <= Deg(90)

\* C18 as stated: for fmt="points" and fmt="json", the rectangle
\* constructed from an arbitrary non-empty point set is the exact bounding
\* box of the points, so every supplied point lies inside it.
C18_PointsExactBox ==
    (FromPoints /\ SuppliedPoints # <<>>)
        => /\ ret.raised = NoError
           /\ Len(ret.rect) = 1
           /\ ExactBox(ret.rect[1], SuppliedPoints)

\* C18 amended: for fmt="points" and fmt="json", the rectangle constructed
\* from a non-empty set of points inside [-180,180] x [-90,90] is the exact
\* bounding box of the points, so every supplied point lies inside it.
C18_PointsExactBoxInRange ==
    (FromPoints /\ SuppliedPoints # <<>> /\ PointsInGlobalRange(SuppliedPoints))
        => /\ ret.raised = NoError
           /\ Len(ret.rect) = 1
           /\ ExactBox(ret.rect[1], SuppliedPoints)

\* A rectangle was built from two points in range that differ in longitude
\* and in latitude, the first one east and south of the second.
C18_Witness ==
    /\ FromPoints /\ call.fmt = "points"
    /\ Len(call.coords) = 2
    /\ PointsInGlobalRange(call.coords)
    /\ call.coords[1][1] > call.coords[2][1]
    /\ call.coords[1][2] < call.coords[2][2]
    /\ ret.raised = NoError
    /\ ret.rect[1].min_longitude = call.coords[2][1]
    /\ ret.rect[1].max_latitude = call.coords[2][2]

(***************************************************************************)
(* Properties of to_geojson.                                               *)
(***************************************************************************)
\* C19: for every valid rectangle, to_geojson produces a Polygon whose
\* ring has exactly 5 points, in the order (min_lon, max_lat),
\* (max_lon, max_lat), (max_lon, min_lat), (min_lon, min_lat),
\* (min_lon, max_lat), the last point equal to the first.
C19_GeojsonRing ==
    (call.op = "to_geojson")
        => /\ ret.raised = NoError
           /\ ret.value.geometry.type = "Polygon"
           /\ Len(ret.value.geometry.coordinates) = 1
           /\ LET ring == ret.value.geometry.coordinates[1]
                  r == self[1]
              IN /\ Len(ring) = 5
                 /\ ring[1] = <<r.min_longitude, r.max_latitude>>
                 /\ ring[2] = <<r.max_longitude, r.max_latitude>>
                 /\ ring[3] = <<r.max_longitude, r.min_latitude>>
                 /\ ring[4] = <<r.min_longitude, r.min_latitude>>
                 /\ ring[5] = <<r.min_longitude, r.max_latitude>>
                 /\ ring[5] = ring[1]

\* to_geojson was called on a rectangle of positive width and height, so
\* that the four corners of the ring are four different points.
C19_Witness ==
    /\ call.op = "to_geojson"
    /\ self[1].min_longitude < self[1].max_longitude
    /\ self[1].min_latitude < self[1].max_latitude
    /\ ret.raised = NoError
    /\ Len(ret.value.geometry.coordinates[1]) = 5

(***************************************************************************)
(* Properties of the registry literals.                                    *)
(***************************************************************************)
\* (-9.00023345437725, 36.956956702083396, 31.598439091981028,
\* 68.02168200047284) in units of 1e-4 degree: left, bottom, right, top.
BigEarthNetLbrt == <<-90002, 369570, 315984, 680217>>

\* C20: constructing a GeoRectangle with fmt="llmm" from the four values
\* of the BigEarthNet domain, which are in lbrt order, is rejected
\* (construction fails) rather than silently producing a rectangle.
C20_LbrtOrderRejected ==
    (/\ call.op = "GeoRectangle"
     /\ call.fmt = "llmm"
     /\ call.coords = BigEarthNetLbrt)
        => (ret.raised # NoError /\ ret.rect = <<>>)

(***************************************************************************)
(* Properties of to_lbrt.                                                  *)
(***************************************************************************)
\* The fields the registry entry waterville_kerry is stated to have, in
\* units of 1e-4 degree.
WatervilleKerry ==
    [min_longitude |-> -102018, max_longitude |-> -101518,
     min_latitude |-> 518020, max_latitude |-> 518466]

\* C21: for every valid rectangle, to_lbrt() returns (min_longitude,
\* min_latitude, max_longitude, max_latitude); the registry entry
\* waterville_kerry has min_longitude=-10.2018, max_longitude=-10.1518,
\* min_latitude=51.8020, max_latitude=51.8466 and its to_lbrt() is
\* (-10.2018, 51.8020, -10.1518, 51.8466).
C21_ToLbrt ==
    /\ (call.op = "to_lbrt")
          => /\ ret.raised = NoError
             /\ ret.value = <<self[1].min_longitude, self[1].min_latitude,
                              self[1].max_longitude, self[1].max_latitude>>
    /\ (call.op = "GeoRectangle" /\ call.from = "waterville_kerry")
          => (ret.raised = NoError /\ ret.rect = <<WatervilleKerry>>)
    /\ (call.op = "to_lbrt" /\ self = <<WatervilleKerry>>)
          => ret.value = <<-102018, 518020, -101518, 518466>>

\* to_lbrt was called on the registry entry waterville_kerry.
C21_Witness ==
    /\ call.op = "to_lbrt"
    /\ self = <<WatervilleKerry>>
    /\ ret.value = <<-102018, 518020, -101518, 518466>>

(***************************************************************************)
(* Properties of the requests find_intersection makes.                     *)
(***************************************************************************)
\* Request k went to the source wrapper after a request to the dataset
\* itself failed, nothing but source requests lying between the two.
AfterFailedDirect(k) ==
    \E j \in 1..(k - 1) :
       /\ asked[j].on = "dataset" /\ ~asked[j].ok
       /\ \A m \in (j + 1)..k : asked[m].on = "source"

\* The indices a scan has to return: the intersecting tiles, and with
\* unique set only those with no equal box at a smaller intersecting index.
Expected ==
    IF unique
    THEN {i \in Hits : ~\E j \in Hits : j < i /\ SamePoints(dataset.tiles[j + 1],
                                                            dataset.tiles[i + 1])}
    ELSE Hits

\* C22: for each tile index find_intersection first asks the dataset
\* itself for the bounding box and asks the dataset's source wrapper only
\* if the dataset lacks that capability; a dataset that serves the boxes
\* only through .source gives the same result as one serving them
\* directly, in the intersection test and in the unique comparison.
C22_DirectThenSource ==
    /\ \A k \in DOMAIN asked :
          /\ (asked[k].on = "dataset") => (asked[k].ok <=> dataset.has_get_boundingbox)
          /\ (asked[k].on = "source") => (asked[k].ok /\ AfterFailedDirect(k))
          /\ (asked[k].on = "dataset" /\ ~asked[k].ok)
                => (k < Len(asked) /\ asked[k + 1].on = "source"
                    /\ asked[k + 1].idx = asked[k].idx)
    /\ (pc = "loop") => \A i \in 0..(idx - 1) : \E k \in DOMAIN asked :
                           asked[k].idx = i /\ asked[k].ok
    /\ (pc = "done")
          => (ret.raised = NoError /\ StrictlyIncreasing(ret.value)
              /\ Elems(ret.value) = Expected)

\* A unique scan of a dataset that serves its boxes only through .source
\* returned two indices and dropped a repeated box.
C22_Witness ==
    /\ pc = "done" /\ unique /\ ~dataset.has_get_boundingbox
    /\ Len(ret.value) >= 2
    /\ Hits # Expected
    /\ \E k \in DOMAIN asked : asked[k].on = "source"

(***************************************************************************)
(* Properties of the model loaders.                                        *)
(***************************************************************************)
LoaderCalled == call.op \in {"load_old_pytorch_model", "load_pytorch_model"}

\* What get_resize_from_mapname is stated to return for a product of the
\* call: the truncated quotient, None in place of a 1 for an embedding
\* model.
StatedResize(product) ==
    LET x == EmbeddingPixels * call.resolution_dict[Append(product, ".hdf5")]
        factor == CHOOSE n \in 0..x : IsTruncation(n, x, call.patch_size_metres)
    IN IF factor = 1 /\ ModelType \in {"transformer_embedding", "universal_embedding"}
       THEN <<>> ELSE <<factor>>

\* The product the k-th construction call of a loader is for.
ProductOf(k) == IF k = 1 THEN call.lc_in ELSE call.lc_out

PlotCalled == call.op = "plot"

HasKey(k) == k \in DOMAIN call.sample

\* The patch size in force: the argument, or the default of the instance.
PatchSize == IF call.patch_size = <<>> THEN call.default_patch_size
             ELSE call.patch_size[1]

\* C24: OpenStreetMap.plot fails with the missing-geographical-info error
\* if and only if the sample has neither a 'bbox' nor a 'coordinate' field;
\* with a 'bbox' the extent is the box's minx, maxx, miny, maxy (whether or
\* not there is a 'coordinate'), and with only a 'coordinate' (minx, maxy)
\* the extent is [minx, minx + patch_size] x [maxy - patch_size, maxy].
C24_PlotExtent ==
    PlotCalled
        => /\ ret.raised \in {NoError, MissingGeoInfo}
           /\ (ret.raised = MissingGeoInfo) <=> (~HasKey("bbox") /\ ~HasKey("coordinate"))
           /\ HasKey("bbox")
                 => ret.value = <<call.sample["bbox"].minx, call.sample["bbox"].maxx,
                                  call.sample["bbox"].miny, call.sample["bbox"].maxy>>
           /\ (HasKey("coordinate") /\ ~HasKey("bbox"))
                 => ret.value = <<call.sample["coordinate"][1],
                                  call.sample["coordinate"][1] + PatchSize,
                                  call.sample["coordinate"][2] - PatchSize,
                                  call.sample["coordinate"][2]>>

\* A sample with both fields was plotted on the extent of its box, which
\* is not the patch under its coordinate.
C24_Witness ==
    /\ PlotCalled /\ HasKey("bbox") /\ HasKey("coordinate")
    /\ ret.raised = NoError
    /\ ret.value[1] = call.sample["bbox"].minx
    /\ ret.value[1] # call.sample["coordinate"][1]

(***************************************************************************)
(* Properties of parse_version_infos.                                      *)
(***************************************************************************)
ParseCalled == call.op = "parse_version_infos"

\* A line key="value": a key, an equals sign, and a text between double
\* quotes; j is where the closing quote stands.
ClosingQuote(l) == CHOOSE j \in 4..Len(l) : l[j] = "\"" /\ \A m \in 4..(j - 1) : l[m] # "\""
IsKeyValueLine(l) ==
    /\ Len(l) >= 4
    /\ l[1] \notin {"=", "\"", "\n"} /\ l[2] = "=" /\ l[3] = "\""
    /\ \E j \in 4..Len(l) : l[j] = "\""
KeyOf(l) == <<l[1]>>
QuotedText(l) == SubSeq(l, 4, ClosingQuote(l) - 1)

\* A file in which every line is a key="value" line and no key comes
\* twice.
WellFormed(file) ==
    /\ file.isfile
    /\ \A i \in DOMAIN file.lines : IsKeyValueLine(file.lines[i])
    /\ \A i, j \in DOMAIN file.lines :
          KeyOf(file.lines[i]) = KeyOf(file.lines[j]) => i = j

\* C25: parse_version_infos fails when the version file is absent from the
\* dataset directory; when it is present (every line a key="value" line),
\* it returns the mapping from each line's key to the text between the
\* line's first pair of double quotes; and the class attribute crs of a
\* dataset with dynamic CRS resolution is only defined when that mapping
\* has a 'crs' entry.
C25_VersionInfos ==
    ParseCalled
        => /\ (~call.file.isfile) => ret.raised = AssertionError
           /\ WellFormed(call.file)
                 => /\ ret.raised = NoError
                    /\ DOMAIN ret.value[1]
                          = {KeyOf(call.file.lines[i]) : i \in DOMAIN call.file.lines}
                    /\ \A i \in DOMAIN call.file.lines :
                          ret.value[1][KeyOf(call.file.lines[i])]
                             = QuotedText(call.file.lines[i])
           /\ (ret.crs.raised = NoError)
                 => (ret.raised = NoError /\ <<"crs">> \in DOMAIN ret.value[1])

\* C26: for any valid rectangle R, GeoRectangle(R.to_bltr(), fmt="bltr")
\* succeeds and has the same four fields as R.
C26_BltrRoundTrip ==
    (call.op = "GeoRectangle" /\ call.from = "to_bltr" /\ call.fmt = "bltr")
       => (ret.raised = NoError /\ ret.rect = self)

(***************************************************************************)
(* Properties of two find_intersection calls on one dataset and domain.    *)
(***************************************************************************)
\* Both calls returned: one with unique=true, one with unique=false.
BothReturned == pc = "done" /\ prev.call.op = "find_intersection"

UniqueResult == IF unique THEN ret.value ELSE prev.ret.value
PlainResult == IF unique THEN prev.ret.value ELSE ret.value

\* u can be had from n by dropping items.
IsSubsequence(u, n) ==
    \E f \in [DOMAIN u -> DOMAIN n] :
       /\ \A j, k \in DOMAIN u : j < k => f[j] < f[k]
       /\ \A k \in DOMAIN u : n[f[k]] = u[k]

\* i is the smallest index among the intersecting tiles whose box is the
\* point set of tile i.
FirstOfGroup(i) ==
    /\ i \in Hits
    /\ \A j \in Hits : SamePoints(dataset.tiles[j + 1], dataset.tiles[i + 1]) => i <= j

\* C27: for any dataset and domain, the result of find_intersection with
\* unique=true is a subsequence of the result with unique=false, and it
\* holds exactly the smallest index of each group of intersecting tiles
\* with geometrically equal bounding boxes, so that every intersecting
\* tile has a returned representative with an equal bounding box.
C27_UniqueRefinesPlain ==
    BothReturned
       => /\ prev.ret.raised = NoError /\ ret.raised = NoError
          /\ IsSubsequence(UniqueResult, PlainResult)
          /\ \A i \in 0..(Len(dataset.tiles) - 1) :
                (\E k \in DOMAIN UniqueResult : UniqueResult[k] = i) <=> FirstOfGroup(i)
          /\ \A i \in DOMAIN PlainResult :
                \E k \in DOMAIN UniqueResult :
                   SamePoints(dataset.tiles[UniqueResult[k] + 1],
                              dataset.tiles[PlainResult[i] + 1])

\* The plain call came first and returned three indices; the unique call
\* then dropped the middle one, a repeat of the first box.
C27_Witness ==
    /\ BothReturned /\ unique
    /\ Len(PlainResult) = 3 /\ Len(UniqueResult) = 2
    /\ UniqueResult = <<PlainResult[1], PlainResult[3]>>

(***************************************************************************)
(* Properties of the scan while it runs.                                   *)
(***************************************************************************)
\* The scan is inside find_intersection: idx is the next index to visit,
\* so the indices visited are 0..idx-1.
Scanning == pc \in {"loop", "done"}

ScanListInvariant ==
    Scanning
       => /\ StrictlyIncreasing(idxs)
          /\ idx <= Len(dataset.tiles)
          /\ \A k \in DOMAIN idxs :
                /\ idxs[k] \in 0..(idx - 1)
                /\ idxs[k] \in 0..(Len(dataset.tiles) - 1)
                /\ SharePoint(dataset.tiles[idxs[k] + 1], DomainRect)

\* A step of one call keeps the list it found as the beginning of the list
\* it leaves.
ScanListKept ==
    (pc = "loop")
       => /\ Len(idxs') >= Len(idxs)
          /\ SubSeq(idxs', 1, Len(idxs)) = idxs

\* C28: at every step of the find_intersection scan the accumulated index
\* list is strictly increasing, holds only indices already visited (within
\* 0..len(dataset)-1), every index in it denotes a tile whose bounding box
\* intersects the domain, and an index once appended is never removed.
C28_ScanList == [](ScanListInvariant) /\ [][ScanListKept]_vars

\* Before the scan returns, the list holds two indices with a rejected
\* tile between them, the second appended by the last iteration.
C28_Witness ==
    /\ pc = "loop"
    /\ Len(idxs) = 2 /\ idxs[2] > idxs[1] + 1
    /\ idx = idxs[2] + 1

(***************************************************************************)
(* Properties of bbox_from_bboxs.                                          *)
(***************************************************************************)
BboxCalled == call.op = "bbox_from_bboxs"

\* r is the smallest rectangle that contains every rectangle of the list:
\* each min field is the least and each max field the greatest of the
\* list's.
SmallestContaining(r, bboxs) ==
    /\ \A k \in DOMAIN bboxs :
          /\ r.min_longitude <= bboxs[k].min_longitude
          /\ r.max_longitude >= bboxs[k].max_longitude
          /\ r.min_latitude <= bboxs[k].min_latitude
          /\ r.max_latitude >= bboxs[k].max_latitude
    /\ \E k \in DOMAIN bboxs : r.min_longitude = bboxs[k].min_longitude
    /\ \E k \in DOMAIN bboxs : r.max_longitude = bboxs[k].max_longitude
    /\ \E k \in DOMAIN bboxs : r.min_latitude = bboxs[k].min_latitude
    /\ \E k \in DOMAIN bboxs : r.max_latitude = bboxs[k].max_latitude

EmptyListFails ==
    (BboxCalled /\ call.bboxs = <<>>)
        => (ret.raised = IncoherentMinMax /\ ret.rect = <<>>)

\* C29 as stated: bbox_from_bboxs returns, for any non-empty list of valid
\* rectangles, the smallest rectangle containing all of them, whatever
\* coordinate values the inputs hold; for an empty list it fails with the
\* invalid-domain error instead of returning a rectangle.
C29_SmallestBox ==
    /\ (BboxCalled /\ call.bboxs # <<>>)
          => /\ ret.raised = NoError
             /\ Len(ret.rect) = 1
             /\ SmallestContaining(ret.rect[1], call.bboxs)
    /\ EmptyListFails

\* C29 amended: bbox_from_bboxs returns, for any non-empty list of valid
\* rectangles that lie inside [-180,180] x [-90,90], the smallest rectangle
\* containing all of them; for an empty list it fails with the
\* invalid-domain error instead of returning a rectangle.
C29_SmallestBoxInRange ==
    /\ (/\ BboxCalled /\ call.bboxs # <<>>
        /\ \A k \in DOMAIN call.bboxs : InGlobalRange(call.bboxs[k]))
          => /\ ret.raised = NoError
             /\ Len(ret.rect) = 1
             /\ SmallestContaining(ret.rect[1], call.bboxs)
    /\ EmptyListFails

\* The box of two rectangles in range was returned, and it is neither of
\* the two.
C29_Witness ==
    /\ BboxCalled /\ Len(call.bboxs) = 2
    /\ \A k \in DOMAIN call.bboxs : InGlobalRange(call.bboxs[k])
    /\ ret.raised = NoError
    /\ ret.rect[1] # call.bboxs[1] /\ ret.rect[1] # call.bboxs[2]
    /\ SmallestContaining(ret.rect[1], call.bboxs)

(***************************************************************************)
(* Properties of the EcoclimapSGplus constructor.                          *)
(***************************************************************************)
FamilyConstructed == call.op = "EcoclimapSGplus"

\* The base name holds the fragment of the default version.
HasDefaultFragment(path) == \E k \in DOMAIN path.basename : path.basename[k] = "-v1.4"

\* C30: when a dataset of the EcoclimapSGplus family is constructed with a
\* version argument, the base raster initialisation indexes the files under
\* self.path before the path is rewritten, that is under the path the
\* instance had on entry (the class's default-version path); only
\* afterwards is self.path the path with "-v<default_ecosgplus_version>"
\* replaced by "-v<version>", and the path is left unchanged when it does
\* not hold that fragment.
C30_IndexedBeforeRewrite ==
    FamilyConstructed
        => /\ ret.raised = NoError
           /\ ret.indexed = IF call.tgeo_init THEN <<call.path>> ELSE <<>>
           /\ ret.path.dirname = call.path.dirname
           /\ Len(ret.path.basename) = Len(call.path.basename)
           /\ \A k \in DOMAIN call.path.basename :
                 ret.path.basename[k]
                    = IF call.path.basename[k] = "-v1.4"
                      THEN VersionFragment(call.version)
                      ELSE call.path.basename[k]
           /\ ~HasDefaultFragment(call.path) => ret.path = call.path

\* EcoclimapSGplus(version = "1.3") indexed the files of version 1.4 and
\* left with the path of version 1.3.
C30_Witness ==
    /\ FamilyConstructed /\ call.version = "1.3" /\ call.tgeo_init
    /\ call.path = EcoclimapSGplus_path
    /\ ret.indexed = <<EcoclimapSGplus_path>>
    /\ ret.path.basename = <<"ecosgp-labels", "-v1.3">>
    /\ ret.path # ret.indexed[1]

=============================================================================
